---- MODULE Spec2Model ----
(***************************************************************************)
(* LIMIT-Graph RDF integration: the named-graph manager (named_graphs.py), *)
(* the triple generator (triple_generator.py) and the SPARQL interface     *)
(* (sparql_interface.py), modelled as one state machine.                   *)
(*                                                                         *)
(* RDF terms are records, triples are <<subject, predicate, object>> and a *)
(* graph is a set of triples, as in rdflib: adding a triple twice adds it  *)
(* once, and nothing in these classes ever removes a triple.               *)
(* uuid.uuid4() is a fresh number taken from a counter; datetime.now() is  *)
(* a clock that never runs backwards.  Floats in [0,1] are tenths.         *)
(***************************************************************************)
EXTENDS Integers, Sequences, FiniteSets, TLC

VARIABLES dataset, annotators, graph, uuidCtr, clock, ops, docs, last

vars == <<dataset, annotators, graph, uuidCtr, clock, ops, docs, last>>

\* ------------------------------------------------------------------ bounds
\* write operations called directly in one behaviour
MaxOps == 2
\* documents converted by the generator in one behaviour
MaxDocs == 2
\* length, in characters, of a caller-supplied query parameter
MaxParamLen == 3
\* length, in tokens, of a text given to detect_language
MaxWords == 3
\* (partition, format) pairs whose serialization fails in one export
MaxFail == 2
\* ticks of the clock in one behaviour
MaxClock == 2
\* characters of a label given to _clean_uri_component
MaxLabelLen == 3

\* ------------------------------------------------------------ RDF terms
URI(ns, local) ==
    [k |-> "uri", ns |-> ns, v |-> local, n |-> 0, dt |-> "", lang |-> ""]

\* a URI whose local name ends in a uuid: LGPROV[f"audit_{uuid}"]
UuidURI(ns, prefix, uuid) ==
    [k |-> "uri", ns |-> ns, v |-> prefix, n |-> uuid, dt |-> "", lang |-> ""]

\* Literal(value), Literal(value, datatype=dt), Literal(value, lang=lang)
Literal(value, dt, lang) ==
    [k |-> "lit", ns |-> "", v |-> value, n |-> 0, dt |-> dt, lang |-> lang]

\* a numeric literal: Literal(0.9, datatype=XSD.float)
NumLiteral(num, dt) ==
    [k |-> "lit", ns |-> "", v |-> "", n |-> num, dt |-> dt, lang |-> ""]

RDFtype == "rdf:type"

\* None, for the optional fields of a LimitGraphTriple
None == [none |-> TRUE]

\* ------------------------------------------------------- named graphs
GraphNames == {"main", "provenance", "annotators", "languages", "rlhf", "audit"}

EmptyDataset == [g \in GraphNames |-> {}]

\* a write that lands in the main graph whatever graph was asked for
AddTriplesToMain(ds, g, triples) == [ds EXCEPT !["main"] = @ \cup triples]

\* graph.add(triple) on the named graph g of the dataset
AddTriples(ds, g, triples) == [ds EXCEPT ![g] = @ \cup triples]

\* the subjects of a graph that have a given rdf:type
Subjects(gr, type) == {t[1] : t \in {x \in gr : x[2] = RDFtype /\ x[3] = type}}

\* the objects recorded for (subject, predicate) in a graph
Objects(gr, s, p) == {t[3] : t \in {x \in gr : x[1] = s /\ x[2] = p}}

\* ------------------------------------------------------------- inputs
AnnotatorIds == {"ann1", "ann2"}

\* AnnotatorProfile records; expertise_domains and languages are lists
Profiles ==
    { [annotator_id |-> a, name |-> "Maria", expertise_domains |-> <<"nlp">>,
       languages |-> <<"es", "en">>, reliability_score |-> 9,
       annotation_count |-> 10, created_date |-> 1] : a \in AnnotatorIds }
    \cup
    { [annotator_id |-> a, name |-> "Ahmed", expertise_domains |-> <<"arabic", "nlp">>,
       languages |-> <<"ar">>, reliability_score |-> 5,
       annotation_count |-> 0, created_date |-> 2] : a \in AnnotatorIds }

\* the kinds the RLHFFeedbackTrace dataclass documents for feedback_type
FeedbackKinds == {"positive", "negative", "correction"}

\* RLHFFeedbackTrace records; "" stands for None in the optional fields,
\* "ghost" is an annotator id that is never registered, "bogus" a
\* feedback_type outside the documented kinds
Trace(id, type, quality, text, annotator, session) ==
    [feedback_id |-> id, statement_id |-> "st1", feedback_type |-> type,
     quality_score |-> quality, relevance_score |-> 8,
     cultural_appropriateness |-> 7, feedback_text |-> text,
     annotator_id |-> annotator, timestamp |-> 1, session_id |-> session]

FeedbackTraces ==
    { Trace("fb1", "positive", 9, "good", "ann1", ""),
      Trace("fb1", "correction", 2, "", "ann1", "s1"),
      Trace("fb2", "negative", 2, "", "ghost", ""),
      Trace("fb2", "positive", 9, "", "ann2", ""),
      Trace("fb2", "bogus", 9, "good", "ann1", "") }

\* ----------------------------------------------------- the clock, uuids
\* datetime.now(): the value read is the clock, which may have advanced
Now == {clock} \cup (IF clock < MaxClock THEN {clock + 1} ELSE {})

\* ------------------------------------------------- named-graph manager
\* an audit URI that does not depend on the uuid drawn
AuditURIFixed(uuid) == UuidURI("LGPROV", "audit_", 0)

\* _add_audit_entry: audit_uri = LGPROV[f"audit_{uuid4()}"]
AuditURI(uuid) == UuidURI("LGPROV", "audit_", uuid)

\* _clean_uri_component on the keys the manager itself passes in
CleanKey(key) == key

AddAuditEntry(ds, action, details, uuid, now) ==
    LET audit_uri == AuditURI(uuid)
    IN  AddTriples(ds, "audit",
            { <<audit_uri, RDFtype, URI("LGONT", "AuditEntry")>>,
              <<audit_uri, "lgont:action", Literal(action, "", "")>>,
              <<audit_uri, "dcterms:created", NumLiteral(now, "xsd:dateTime")>> }
            \cup
            { <<audit_uri, "lgprov:" \o CleanKey(kv[1]), Literal(kv[2], "", "")>> :
                kv \in details })

\* the triples add_rlhf_feedback_trace adds to the rlhf graph
FeedbackTriples(tr) ==
    LET feedback_uri == URI("LGRLHF", "feedback_" \o tr.feedback_id)
    IN  { <<feedback_uri, RDFtype, URI("LGONT", "RLHFFeedback")>>,
          <<feedback_uri, "lgont:feedbackId", Literal(tr.feedback_id, "", "")>>,
          <<feedback_uri, "lgont:statementId", Literal(tr.statement_id, "", "")>>,
          <<feedback_uri, "lgont:feedbackType", Literal(tr.feedback_type, "", "")>>,
          <<feedback_uri, "lgont:qualityScore", NumLiteral(tr.quality_score, "xsd:float")>>,
          <<feedback_uri, "lgont:relevanceScore", NumLiteral(tr.relevance_score, "xsd:float")>>,
          <<feedback_uri, "lgont:culturalAppropriateness",
            NumLiteral(tr.cultural_appropriateness, "xsd:float")>>,
          <<feedback_uri, "dcterms:created", NumLiteral(tr.timestamp, "xsd:dateTime")>>,
          <<feedback_uri, "lgont:providedBy", URI("LGANG", tr.annotator_id)>> }
        \cup (IF tr.feedback_text # ""
              THEN {<<feedback_uri, "lgont:feedbackText", Literal(tr.feedback_text, "", "")>>}
              ELSE {})
        \cup (IF tr.session_id # ""
              THEN {<<feedback_uri, "lgont:sessionId", Literal(tr.session_id, "", "")>>}
              ELSE {})

\* the dataset after add_rlhf_feedback_trace(tr): the feedback, then the audit entry
FeedbackWrite(ds, tr, uuid, now) ==
    AddAuditEntry(AddTriples(ds, "rlhf", FeedbackTriples(tr)),
                  "rlhf_feedback_added",
                  { <<"feedback_id", tr.feedback_id>>,
                    <<"annotator_id", tr.annotator_id>>,
                    <<"feedback_type", tr.feedback_type>> },
                  uuid, now)

\* the outcome of add_rlhf_feedback_trace(tr): the code has no check of
\* feedback_type and returns the feedback id for every trace
FeedbackOutcome(tr) == "ok"

AddRlhfFeedbackTrace ==
    /\ ops < MaxOps
    /\ \E tr \in FeedbackTraces, now \in Now :
        /\ dataset' = FeedbackWrite(dataset, tr, uuidCtr, now)
        /\ uuidCtr' = uuidCtr + 1
        /\ clock' = now
        /\ last' = [op |-> "add_rlhf_feedback_trace", trace |-> tr,
                    outcome |-> FeedbackOutcome(tr), returned |-> tr.feedback_id]
    /\ ops' = ops + 1
    /\ UNCHANGED <<annotators, graph, docs>>

\* the triples register_annotator adds to the annotators graph
AnnotatorTriples(p) ==
    LET annotator_uri == URI("LGANG", p.annotator_id)
    IN  { <<annotator_uri, RDFtype, URI("LGONT", "Annotator")>>,
          <<annotator_uri, "foaf:name", Literal(p.name, "", "")>>,
          <<annotator_uri, "lgont:annotatorId", Literal(p.annotator_id, "", "")>>,
          <<annotator_uri, "lgont:reliabilityScore", NumLiteral(p.reliability_score, "xsd:float")>>,
          <<annotator_uri, "lgont:annotationCount", NumLiteral(p.annotation_count, "xsd:integer")>>,
          <<annotator_uri, "dcterms:created", NumLiteral(p.created_date, "xsd:dateTime")>> }
        \cup { <<annotator_uri, "lgont:expertiseIn", Literal(p.expertise_domains[i], "", "")>> :
                 i \in DOMAIN p.expertise_domains }
        \cup { <<annotator_uri, "lgont:speaksLanguage", URI("LGLANG", p.languages[i])>> :
                 i \in DOMAIN p.languages }

\* a registration that drops what the graph held about the annotator
RegisterReplace(gr, p) ==
    {t \in gr : t[1] # URI("LGANG", p.annotator_id)} \cup AnnotatorTriples(p)

\* the annotators graph after register_annotator(p): graph.add of each triple
RegisterWrite(gr, p) == gr \cup AnnotatorTriples(p)

RegisterAnnotator ==
    /\ ops < MaxOps
    /\ \E p \in Profiles :
        /\ annotators' = [a \in DOMAIN annotators \cup {p.annotator_id} |->
                            IF a = p.annotator_id THEN p ELSE annotators[a]]
        /\ dataset' = [dataset EXCEPT !["annotators"] = RegisterWrite(@, p)]
        /\ last' = [op |-> "register_annotator", profile |-> p,
                    outcome |-> "ok", returned |-> p.annotator_id]
    /\ ops' = ops + 1
    /\ UNCHANGED <<graph, uuidCtr, clock, docs>>

\* self.supported_languages of the manager
SupportedLanguages ==
    [en |-> [name |-> "English", rtl |-> "false", script |-> "Latin"],
     es |-> [name |-> "Spanish", rtl |-> "false", script |-> "Latin"],
     ar |-> [name |-> "Arabic", rtl |-> "true", script |-> "Arabic"],
     id |-> [name |-> "Indonesian", rtl |-> "false", script |-> "Latin"],
     zh |-> [name |-> "Chinese", rtl |-> "false", script |-> "Chinese"],
     hi |-> [name |-> "Hindi", rtl |-> "false", script |-> "Devanagari"]]

\* LanguageAnnotation records; "" stands for None in the optional fields
LanguageAnnotation(text, code, confidence, context) ==
    [text |-> text, language_code |-> code, confidence |-> confidence,
     detection_method |-> "pattern_matching", cultural_context |-> context,
     dialect_variant |-> ""]

\* the language codes given to the manager: three of its table and two
\* well-formed codes that its table does not list
AnnotationCodes == {"es", "ar", "en", "fr", "sw"}

LanguageAnnotations ==
    {LanguageAnnotation("manzanas", code, 9, context) :
        code \in AnnotationCodes, context \in {"", "latin_american"}}

\* the statement URIs that annotations and provenance records point at
StatementRefs == {URI("LGDATA", "statement_1"), URI("LGDATA", "statement_2")}

\* one URI for every language
LanguageURIShared(code) == URI("LGLANG", "language")

\* lang_uri = self.LGLANG[language_code]
LanguageURI(code) == URI("LGLANG", code)

\* the triples _ensure_language_metadata adds for a code without a record
LanguageMetadata(code) ==
    LET lang_uri == LanguageURI(code)
    IN  { <<lang_uri, RDFtype, URI("LGONT", "Language")>>,
          <<lang_uri, "lgont:languageCode", Literal(code, "", "")>> }
        \cup (IF code \in DOMAIN SupportedLanguages
              THEN LET lang_info == SupportedLanguages[code]
                   IN  { <<lang_uri, "rdfs:label", Literal(lang_info.name, "", "")>>,
                         <<lang_uri, "lgont:isRightToLeft",
                           Literal(lang_info.rtl, "xsd:boolean", "")>>,
                         <<lang_uri, "lgont:script", Literal(lang_info.script, "", "")>> }
              ELSE {})

\* _ensure_language_metadata(language_code) on the languages graph
EnsureLanguageMetadata(gr, code) ==
    IF <<LanguageURI(code), RDFtype, URI("LGONT", "Language")>> \in gr
    THEN gr
    ELSE gr \cup LanguageMetadata(code)

AnnotationURI(uuid) == UuidURI("LGLANG", "annotation_", uuid)

\* the triples add_language_annotation adds for the annotation itself
AnnotationTriples(statement_uri, a, uuid) ==
    LET lang_annotation_uri == AnnotationURI(uuid)
    IN  { <<lang_annotation_uri, RDFtype, URI("LGONT", "LanguageAnnotation")>>,
          <<lang_annotation_uri, "lgont:annotatesStatement", statement_uri>>,
          <<lang_annotation_uri, "lgont:text", Literal(a.text, "", a.language_code)>>,
          <<lang_annotation_uri, "lgont:languageCode", Literal(a.language_code, "", "")>>,
          <<lang_annotation_uri, "lgont:confidence", NumLiteral(a.confidence, "xsd:float")>>,
          <<lang_annotation_uri, "lgont:detectionMethod",
            Literal(a.detection_method, "", "")>> }
        \cup (IF a.cultural_context # ""
              THEN {<<lang_annotation_uri, "lgont:culturalContext",
                      Literal(a.cultural_context, "", "")>>}
              ELSE {})
        \cup (IF a.dialect_variant # ""
              THEN {<<lang_annotation_uri, "lgont:dialectVariant",
                      Literal(a.dialect_variant, "", "")>>}
              ELSE {})

AddLanguageAnnotation ==
    /\ ops < MaxOps
    /\ \E statement_uri \in StatementRefs, a \in LanguageAnnotations :
        /\ dataset' = [dataset EXCEPT !["languages"] =
                          EnsureLanguageMetadata(@ \cup AnnotationTriples(statement_uri, a, uuidCtr),
                                                 a.language_code)]
        /\ last' = [op |-> "add_language_annotation", statement |-> statement_uri,
                    annotation |-> a, outcome |-> "ok", returned |-> uuidCtr]
    /\ uuidCtr' = uuidCtr + 1
    /\ ops' = ops + 1
    /\ UNCHANGED <<annotators, graph, clock, docs>>

\* the values of a provenance_data dict, each with its Python type
Val(t, v, n) == [t |-> t, v |-> v, n |-> n]

\* the Literal add_provenance_trace makes of a value: the test for int and
\* float comes first and takes the bools too (a bool is an int), then the
\* datetimes, then str(value)
ProvenanceLiteral(value) ==
    IF value.t \in {"int", "float", "bool"}
    THEN IF value.t = "float" THEN NumLiteral(value.n, "xsd:float")
         ELSE IF value.t = "int" THEN NumLiteral(value.n, "xsd:integer")
         ELSE Literal(value.v, "xsd:integer", "")
    ELSE IF value.t = "datetime" THEN NumLiteral(value.n, "xsd:dateTime")
    ELSE Literal(value.v, "", "")

\* provenance_data dicts, as sets of <<key, value>>: the annotator is named
\* under the key the provenance query reads, and under another key
ProvenanceData ==
    { { <<"annotatorId", Val("str", a, 0)>>, <<"confidence", Val("float", "", 9)>>,
        <<"timestamp", Val("datetime", "", 1)>> } : a \in AnnotatorIds }
    \cup
    { { <<"annotator_id", Val("str", "ann1", 0)>>, <<"reviewed", Val("bool", "True", 1)>>,
        <<"passes", Val("int", "", 2)>>, <<"method", Val("str", "manual", 0)>> } }

ProvenanceURI(uuid) == UuidURI("LGPROV", "provenance_", uuid)

\* the triples add_provenance_trace adds to the provenance graph
ProvenanceRecord(statement_uri, provenance_data, uuid, now) ==
    LET prov_uri == ProvenanceURI(uuid)
    IN  { <<prov_uri, RDFtype, URI("LGONT", "ProvenanceRecord")>>,
          <<prov_uri, "lgont:tracesStatement", statement_uri>>,
          <<prov_uri, "dcterms:created", NumLiteral(now, "xsd:dateTime")>> }
        \cup { <<prov_uri, "lgprov:" \o CleanKey(kv[1]), ProvenanceLiteral(kv[2])>> :
                 kv \in provenance_data }

AddProvenanceTrace ==
    /\ ops < MaxOps
    /\ \E statement_uri \in StatementRefs, provenance_data \in ProvenanceData, now \in Now :
        /\ dataset' = AddTriples(dataset, "provenance",
                                 ProvenanceRecord(statement_uri, provenance_data, uuidCtr, now))
        /\ clock' = now
        /\ last' = [op |-> "add_provenance_trace", statement |-> statement_uri,
                    provenance_data |-> provenance_data, outcome |-> "ok",
                    returned |-> uuidCtr]
    /\ uuidCtr' = uuidCtr + 1
    /\ ops' = ops + 1
    /\ UNCHANGED <<annotators, graph, docs>>

\* the solutions of the query of query_by_annotator: the provenance graph
\* gives ?prov, ?statement, ?confidence and ?timestamp, the main graph the
\* subject, predicate and object of ?statement
AnnotatorSolutions(ds, annotator_id) ==
    LET prov == ds["provenance"]
        main == ds["main"]
        named == {t[1] : t \in {x \in prov : /\ x[2] = "lgont:annotatorId"
                                             /\ x[3] = Literal(annotator_id, "", "")}}
    IN  { [prov |-> a[1], statement |-> a[2], confidence |-> a[3], timestamp |-> a[4],
           subject |-> a[5], predicate |-> a[6], object |-> a[7]] :
            a \in UNION { UNION { {p} \X {st}
                                      \X Objects(prov, p, "lgont:confidence")
                                      \X Objects(prov, p, "lgont:timestamp")
                                      \X Objects(main, st, "lgont:hasSubject")
                                      \X Objects(main, st, "lgont:hasPredicate")
                                      \X Objects(main, st, "lgont:hasObject") :
                                  st \in Objects(prov, p, "lgont:tracesStatement") } :
                          p \in named } }

\* query_by_annotator(annotator_id): one dict per solution
QueryByAnnotator ==
    /\ \E annotator_id \in AnnotatorIds :
        last' = [op |-> "query_by_annotator", annotator_id |-> annotator_id,
                 returned |-> AnnotatorSolutions(dataset, annotator_id)]
    /\ UNCHANGED <<dataset, annotators, graph, uuidCtr, clock, ops, docs>>

\* the feedback records of the rlhf graph that have all six values the
\* query asks for, with those values
FeedbackSolutions(ds) ==
    { [feedback |-> a[1], statementId |-> a[2], feedbackType |-> a[3],
       qualityScore |-> a[4], relevanceScore |-> a[5],
       culturalAppropriateness |-> a[6], timestamp |-> a[7]] :
        a \in UNION { {f} \X Objects(ds["rlhf"], f, "lgont:statementId")
                          \X Objects(ds["rlhf"], f, "lgont:feedbackType")
                          \X Objects(ds["rlhf"], f, "lgont:qualityScore")
                          \X Objects(ds["rlhf"], f, "lgont:relevanceScore")
                          \X Objects(ds["rlhf"], f, "lgont:culturalAppropriateness")
                          \X Objects(ds["rlhf"], f, "dcterms:created") :
                      f \in {t[1] : t \in ds["rlhf"]} } }

\* a query without the join on the annotators graph: the annotator of a
\* solution is whatever lgont:providedBy names
RlhfSolutionsUnjoined(ds, feedback_type, min_quality_score) ==
    { [annotator |-> x[2][3], annotatorId |-> Literal(x[2][3].v, "", "")] @@ x[1] :
        x \in { y \in FeedbackSolutions(ds)
                      \X {t \in ds["rlhf"] : t[2] = "lgont:providedBy"} :
                  /\ y[2][1] = y[1].feedback
                  /\ feedback_type # "" => y[1].feedbackType = Literal(feedback_type, "", "")
                  /\ min_quality_score > 0 => y[1].qualityScore.n >= min_quality_score } }

\* the solutions of the query of query_rlhf_feedback: a feedback record
\* joined, through lgont:providedBy, with an annotator that has an
\* lgont:annotatorId in the annotators graph, and the two filters
RlhfSolutions(ds, feedback_type, min_quality_score) ==
    { [annotator |-> x[2][1], annotatorId |-> x[2][3]] @@ x[1] :
        x \in { y \in FeedbackSolutions(ds)
                      \X {t \in ds["annotators"] : t[2] = "lgont:annotatorId"} :
                  /\ <<y[1].feedback, "lgont:providedBy", y[2][1]>> \in ds["rlhf"]
                  /\ feedback_type # "" => y[1].feedbackType = Literal(feedback_type, "", "")
                  /\ min_quality_score > 0 => y[1].qualityScore.n >= min_quality_score } }

\* query_rlhf_feedback(feedback_type, min_quality_score): one dict per solution
QueryRlhfFeedback ==
    /\ \E feedback_type \in {"", "positive"}, min_quality_score \in {0, 5} :
        last' = [op |-> "query_rlhf_feedback", feedback_type |-> feedback_type,
                 min_quality_score |-> min_quality_score,
                 returned |-> RlhfSolutions(dataset, feedback_type, min_quality_score)]
    /\ UNCHANGED <<dataset, annotators, graph, uuidCtr, clock, ops, docs>>

\* export_named_graphs: self.graphs in insertion order, and for each graph
\* the formats dict in insertion order
GraphOrder == <<"main", "provenance", "annotators", "languages", "rlhf", "audit">>

ExportFormats == <<"turtle", "xml", "json-ld">>

\* the (graph_name, format_name) pairs in the order the two loops visit them
ExportPairs ==
    [i \in 1..(Len(GraphOrder) * Len(ExportFormats)) |->
        <<GraphOrder[((i - 1) \div Len(ExportFormats)) + 1],
          ExportFormats[((i - 1) % Len(ExportFormats)) + 1]>>]

\* a fail-fast export: the first failure ends both loops
AbortExportOnFailure(i) == Len(ExportPairs) + 1

\* the except clause of the inner loop: print, and go on with the next pair
AfterExportFailure(i) == i + 1

\* the two loops from pair i on; fails is the set of pairs whose
\* graph.serialize raises, acc the pairs attempted and exported_files so far
RECURSIVE ExportFrom(_, _, _)
ExportFrom(i, fails, acc) ==
    IF i > Len(ExportPairs) THEN acc
    ELSE LET pr == ExportPairs[i]
             tried == [acc EXCEPT !.attempted = Append(@, pr)]
         IN  IF pr \in fails
             THEN ExportFrom(AfterExportFailure(i), fails, tried)
             ELSE ExportFrom(i + 1, fails, [tried EXCEPT !.exported = @ \cup {pr}])

\* the sets of pairs that fail in one export
RECURSIVE SubsetsUpTo(_, _)
SubsetsUpTo(S, n) ==
    IF n = 0 THEN {{}}
    ELSE LET smaller == SubsetsUpTo(S, n - 1)
         IN  smaller \cup {f \cup {x} : f \in smaller, x \in S}

FailSets == SubsetsUpTo({ExportPairs[i] : i \in DOMAIN ExportPairs}, MaxFail)

ExportNamedGraphs ==
    /\ \E fails \in FailSets :
        LET run == ExportFrom(1, fails, [attempted |-> << >>, exported |-> {}])
        IN  last' = [op |-> "export_named_graphs", fails |-> fails,
                     attempted |-> run.attempted, returned |-> run.exported]
    /\ UNCHANGED <<dataset, annotators, graph, uuidCtr, clock, ops, docs>>

\* ---------------------------------------------------------------- text
\* A Python str is modelled as a number of leading spaces followed by
\* chunks separated by single spaces; a chunk is a word of \w characters
\* followed by at most one punctuation mark.  Accented Latin letters are
\* written without the accent (they are \w, alphanumeric and lower-cased
\* like any letter), and the Arabic stop words are transliterated (Arabic
\* has no case, lower() leaves it alone).
W(w) == [w |-> w, p |-> ""]

P(w, p) == [w |-> w, p |-> p]

Text(sp, ch) == [sp |-> sp, ch |-> ch]

\* a str made of one word
Word(w) == Text(0, <<W(w)>>)

\* str.lower() on a word of the vocabulary
Lower(w) ==
    CASE w = "A" -> "a"
      [] w = "Andres" -> "andres"
      [] w = "Juana" -> "juana"
      [] w = "Alice" -> "alice"
      [] w = "Bob" -> "bob"
      [] w = "The" -> "the"
      [] w = "Ana" -> "ana"
      [] OTHER -> w

\* bool(text): the empty str is the only false one
Truthy(text) == text.sp > 0 \/ Len(text.ch) > 0

\* text.lower().split()
Split(text) == [i \in DOMAIN text.ch |-> Lower(text.ch[i].w) \o text.ch[i].p]

\* f"{a} {b}": the words of both, whatever the spacing
Cat(a, b) == Text(a.sp, a.ch \o b.ch)

RECURSIVE Spaces(_)
Spaces(n) == IF n = 0 THEN "" ELSE " " \o Spaces(n - 1)

RECURSIVE JoinChunks(_, _, _)
JoinChunks(ch, i, sep) ==
    IF i > Len(ch) THEN ""
    ELSE ch[i].w \o ch[i].p \o (IF i < Len(ch) THEN sep ELSE "") \o JoinChunks(ch, i + 1, sep)

\* the characters of the str
Raw(text) == Spaces(text.sp) \o JoinChunks(text.ch, 1, " ")

RECURSIVE ChunkChars(_, _)
ChunkChars(ch, i) ==
    IF i > Len(ch) THEN 0
    ELSE Len(ch[i].w) + Len(ch[i].p) + (IF i < Len(ch) THEN 1 ELSE 0) + ChunkChars(ch, i + 1)

\* len(text)
CharLen(text) == text.sp + ChunkChars(text.ch, 1)

\* ------------------------------------------------------ triple generator
\* self.language_patterns, in the insertion order of the dict
LanguageOrder == <<"es", "ar", "id", "en">>

LanguagePatterns ==
    [es |-> {"el", "la", "los", "las", "de", "del", "en", "con", "por", "para", "que", "es", "son"},
     ar |-> {"fi", "min", "ila", "ala", "maa", "huwa", "hiya", "allati", "alladhi"},
     id |-> {"yang", "dan", "di", "ke", "dari", "untuk", "dengan", "adalah", "ini", "itu"},
     en |-> {"the", "and", "or", "in", "on", "at", "to", "from", "with", "is", "are"}]

\* sum(1 for word in words if word in patterns)
Hits(words, lang) == Cardinality({i \in DOMAIN words : words[i] \in LanguagePatterns[lang]})

\* language_scores: the languages with a hit, in dict order, each with
\* score / len(words) kept as the pair <<score, len(words)>>
RECURSIVE LanguageScores(_, _)
LanguageScores(words, i) ==
    IF i > Len(LanguageOrder) THEN << >>
    ELSE LET lang == LanguageOrder[i]
             score == Hits(words, lang)
         IN  (IF score > 0 THEN << <<lang, <<score, Len(words)>> >> >> ELSE << >>)
             \o LanguageScores(words, i + 1)

\* a comparison that lets a later item with an equal key win
GreaterOrEqual(a, b) == a[1] * b[2] >= b[1] * a[2]

\* a[1] / a[2] > b[1] / b[2]
Greater(a, b) == a[1] * b[2] > b[1] * a[2]

\* max(items, key=lambda x: x[1]): the first item with the greatest key
RECURSIVE MaxItem(_, _, _)
MaxItem(items, i, best) ==
    IF i > Len(items) THEN best
    ELSE MaxItem(items, i + 1, IF Greater(items[i][2], best[2]) THEN items[i] ELSE best)

\* a fallback that is no language code
NoLanguage == "unknown"

\* the code returned when no language scored: "en"
FallbackLanguage == "en"

\* detect_language(text)
DetectLanguage(text) ==
    IF ~Truthy(text) THEN "en"
    ELSE LET language_scores == LanguageScores(Split(text), 1)
         IN  IF language_scores # << >>
             THEN MaxItem(language_scores, 2, language_scores[1])[1]
             ELSE FallbackLanguage

RECURSIVE SeqsUpTo(_, _)
SeqsUpTo(S, n) ==
    IF n = 0 THEN {<< >>}
    ELSE LET shorter == SeqsUpTo(S, n - 1)
         IN  shorter \cup {Append(q, x) : q \in shorter, x \in S}

\* _clean_uri_component on a word: "-" becomes "_", every other character
\* that is neither alphanumeric nor "_" is dropped
CleanWord(w) ==
    CASE w = "d-1" -> "d_1"
      [] w = "document_d-1" -> "document_d_1"
      [] OTHER -> w

RECURSIVE Underscores(_)
Underscores(n) == IF n = 0 THEN "" ELSE "_" \o Underscores(n - 1)

RECURSIVE CleanChunks(_, _)
CleanChunks(ch, i) ==
    IF i > Len(ch) THEN ""
    ELSE CleanWord(ch[i].w) \o (IF i < Len(ch) THEN "_" ELSE "") \o CleanChunks(ch, i + 1)

\* _clean_uri_component(component): every space becomes "_", the
\* punctuation marks are dropped
Clean(text) == Underscores(text.sp) \o CleanChunks(text.ch, 1)

\* the length below which _is_entity takes a value for an entity name
EntityMaxLen == 50

\* a test on the length alone
IsEntityByLength(value) == CharLen(value) < EntityMaxLen

\* _is_entity(value)
IsEntity(value) ==
    /\ CharLen(value) < EntityMaxLen
    /\ \A i \in DOMAIN value.ch : value.ch[i].p \notin {".", "!", "?", ","}

\* (.+?)(?:\.|$) from chunk j on: the chunk whose "." ends the group, or 0
\* when the group runs to the end of the text
ObjectEnd(ch, j) ==
    IF \E k \in j..Len(ch) : ch[k].p = "."
    THEN CHOOSE k \in j..Len(ch) : ch[k].p = "." /\ \A m \in j..(k - 1) : ch[m].p # "."
    ELSE 0

\* a greedy group: it runs to the end of the text
ObjectOfGreedy(ch, j) == Text(0, SubSeq(ch, j, Len(ch)))

\* match.group(2).strip()
ObjectOf(ch, j) ==
    LET k == ObjectEnd(ch, j)
    IN  IF k = 0 THEN Text(0, SubSeq(ch, j, Len(ch)))
        ELSE Text(0, SubSeq(ch, j, k - 1) \o <<W(ch[k].w)>>)

\* the last chunk of a match whose object starts at chunk j
MatchEnd(ch, j) == IF ObjectEnd(ch, j) = 0 THEN Len(ch) ELSE ObjectEnd(ch, j)

\* the words that end in the letter a or A
EndsInA ==
    {"A", "a", "Juana", "Ana", "la", "alergica", "gusta", "tea"}

\* the three patterns, each with the chunk its object starts at; the
\* match is tried with its first chunk at i, under re.IGNORECASE
\* r"A\s+(\w+)\s+le\s+gusta[n]?\s+(.+?)(?:\.|$)"
SpanishLikesAt(ch, i) ==
    /\ i + 4 <= Len(ch)
    /\ ch[i].w \in EndsInA /\ ch[i].p = ""
    /\ ch[i + 1].p = ""
    /\ Lower(ch[i + 2].w) = "le" /\ ch[i + 2].p = ""
    /\ Lower(ch[i + 3].w) \in {"gusta", "gustan"} /\ ch[i + 3].p = ""

\* r"(\w+)\s+es\s+alergic[ao]\s+a\s+(.+?)(?:\.|$)"
SpanishAllergicAt(ch, i) ==
    /\ i + 4 <= Len(ch)
    /\ ch[i].p = ""
    /\ Lower(ch[i + 1].w) = "es" /\ ch[i + 1].p = ""
    /\ Lower(ch[i + 2].w) \in {"alergica", "alergico"} /\ ch[i + 2].p = ""
    /\ Lower(ch[i + 3].w) = "a" /\ ch[i + 3].p = ""

\* r"(\w+)\s+likes?\s+(.+?)(?:\.|$)"
EnglishLikesAt(ch, i) ==
    /\ i + 2 <= Len(ch)
    /\ ch[i].p = ""
    /\ Lower(ch[i + 1].w) \in {"like", "likes"} /\ ch[i + 1].p = ""

PatternMatchesAt(pattern, ch, i) ==
    CASE pattern = "es_likes" -> SpanishLikesAt(ch, i)
      [] pattern = "es_allergic" -> SpanishAllergicAt(ch, i)
      [] pattern = "en_likes" -> EnglishLikesAt(ch, i)

\* the chunk of group(1) and the chunk group(2) starts at, relative to i
PatternShape(pattern) ==
    CASE pattern = "es_likes" -> [person |-> 1, object |-> 4, predicate |-> "likes"]
      [] pattern = "es_allergic" -> [person |-> 0, object |-> 4, predicate |-> "allergic_to"]
      [] pattern = "en_likes" -> [person |-> 0, object |-> 2, predicate |-> "likes"]

\* the dict appended for one match
Candidate(subject, predicate, object, confidence, doc_id) ==
    [subject |-> subject, predicate |-> predicate, object |-> object,
     confidence |-> confidence, source_doc |-> doc_id]

\* re.finditer(pattern, text): the matches from chunk i on, left to right,
\* each search starting where the match before ended
RECURSIVE FindIter(_, _, _, _)
FindIter(pattern, ch, i, doc_id) ==
    IF i > Len(ch) THEN << >>
    ELSE IF PatternMatchesAt(pattern, ch, i)
         THEN LET shape == PatternShape(pattern)
              IN  << Candidate(Word(ch[i + shape.person].w), shape.predicate,
                               ObjectOf(ch, i + shape.object), 9, doc_id) >>
                  \o FindIter(pattern, ch, MatchEnd(ch, i + shape.object) + 1, doc_id)
         ELSE FindIter(pattern, ch, i + 1, doc_id)

\* an extractor that forgets the document containment triple
NoContainsText(text, doc_id) == << >>

\* the document containment triple appended after the pattern matches
ContainsText(text, doc_id) ==
    << Candidate(Word("document_" \o doc_id), "contains_text", text, 10, doc_id) >>

\* _extract_simple_triples(text, doc_id, language)
ExtractSimpleTriples(text, doc_id, language) ==
    (IF language = "es"
     THEN FindIter("es_likes", text.ch, 1, doc_id) \o FindIter("es_allergic", text.ch, 1, doc_id)
     ELSE IF language = "en"
          THEN FindIter("en_likes", text.ch, 1, doc_id)
          ELSE << >>)
    \o ContainsText(text, doc_id)

\* convert_limitgraph_edge_to_triple: the language is detected again, on
\* f"{subject} {predicate} {object_value} {source_text}"
ConvertEdge(c, annotator_id, source_text, now) ==
    LET combined_text == Cat(Cat(Cat(c.subject, Word(c.predicate)), c.object), source_text)
    IN  [subject |-> c.subject, predicate |-> c.predicate, object |-> c.object,
         confidence |-> c.confidence,
         source_language |-> DetectLanguage(combined_text),
         annotator_id |-> annotator_id, timestamp |-> now,
         rlhf_feedback |-> None,
         provenance |-> [extraction_method |-> "limitgraph_conversion",
                         source_system |-> "LIMIT-Graph",
                         conversion_timestamp |-> now,
                         source_text |-> source_text]]

\* a statement URI that does not depend on the uuid drawn
StatementURIFixed(uuid) == UuidURI("LGPROV", "statement_", 0)

\* statement_uri = self.LGPROV[f"statement_{statement_id}"]
StatementURI(uuid) == UuidURI("LGPROV", "statement_", uuid)

\* the object term of add_triple_to_graph
ObjectTerm(triple) ==
    IF IsEntity(triple.object)
    THEN URI("LGDATA", Clean(triple.object))
    ELSE Literal(Raw(triple.object), "", triple.source_language)

\* the provenance details: one triple per key of triple.provenance
ProvenanceDetails(statement_uri, provenance) ==
    { <<statement_uri, "lgprov:extraction_method",
        Literal(provenance.extraction_method, "xsd:string", "")>>,
      <<statement_uri, "lgprov:source_system",
        Literal(provenance.source_system, "xsd:string", "")>>,
      <<statement_uri, "lgprov:conversion_timestamp",
        NumLiteral(provenance.conversion_timestamp, "xsd:string")>>,
      <<statement_uri, "lgprov:source_text",
        Literal(Raw(provenance.source_text), "xsd:string", "")>> }

\* _add_provenance_triples
ProvenanceTriples(statement_uri, triple, subject_uri, predicate_uri, object_uri) ==
    { <<statement_uri, RDFtype, URI("LGONT", "Statement")>>,
      <<statement_uri, "lgont:hasSubject", subject_uri>>,
      <<statement_uri, "lgont:hasPredicate", predicate_uri>>,
      <<statement_uri, "lgont:hasObject", object_uri>>,
      <<statement_uri, "lgont:confidence", NumLiteral(triple.confidence, "xsd:float")>>,
      <<statement_uri, "lgont:sourceLanguage", Literal(triple.source_language, "xsd:string", "")>>,
      <<statement_uri, "lgont:annotatorId", Literal(triple.annotator_id, "xsd:string", "")>>,
      <<statement_uri, "lgont:timestamp", NumLiteral(triple.timestamp, "xsd:dateTime")>> }
    \cup (IF triple.provenance # None
          THEN ProvenanceDetails(statement_uri, triple.provenance)
          ELSE {})

\* _add_rlhf_triples: the feedback dict of the model has a float under
\* "quality_score" and a str under "comment"
RlhfTriples(statement_uri, rlhf_feedback, uuid) ==
    LET feedback_uri == UuidURI("LGRLHF", "feedback_", uuid)
    IN  { <<feedback_uri, RDFtype, URI("LGONT", "RLHFFeedback")>>,
          <<statement_uri, "lgont:hasRLHFFeedback", feedback_uri>>,
          <<feedback_uri, "lgrlhf:quality_score",
            NumLiteral(rlhf_feedback.quality_score, "xsd:float")>>,
          <<feedback_uri, "lgrlhf:comment",
            Literal(rlhf_feedback.comment, "xsd:string", "")>> }

\* the (subject, predicate, object) triple add_triple_to_graph adds first
MainTriple(triple) ==
    <<URI("LGDATA", Clean(triple.subject)),
      "lgont:" \o Clean(Word(triple.predicate)),
      ObjectTerm(triple)>>

\* add_triple_to_graph(triple) with the uuid drawn for the statement; the
\* feedback, when the triple has one, takes the next uuid
AddTripleToGraph(gr, triple, uuid) ==
    LET subject_uri == URI("LGDATA", Clean(triple.subject))
        predicate_uri == URI("LGONT", Clean(Word(triple.predicate)))
        object_uri == ObjectTerm(triple)
    IN  gr \cup {<<subject_uri, "lgont:" \o predicate_uri.v, object_uri>>}
           \cup ProvenanceTriples(StatementURI(uuid), triple, subject_uri, predicate_uri, object_uri)
           \cup (IF triple.rlhf_feedback # None
                 THEN RlhfTriples(StatementURI(uuid), triple.rlhf_feedback, uuid + 1)
                 ELSE {})

\* a corpus record: {"_id": id, "text": text}, or one without "_id"
Doc(id, text) == [has_id |-> TRUE, id |-> id, text |-> text]

NoIdDoc(text) == [has_id |-> FALSE, id |-> "", text |-> text]

\* the triples that describe the document itself
DocumentTriples(doc_id, text, language) ==
    LET doc_uri == URI("LGDATA", "document_" \o Clean(Word(doc_id)))
    IN  { <<doc_uri, RDFtype, URI("LGONT", "Document")>>,
          <<doc_uri, "rdfs:label", Literal("Document " \o doc_id, "", language)>>,
          <<doc_uri, "lgont:content", Literal(Raw(text), "", language)>>,
          <<doc_uri, "lgont:documentId", Literal(doc_id, "xsd:string", "")>>,
          <<doc_uri, "lgont:language", Literal(language, "xsd:string", "")>> }

\* the inner loop: one statement per extracted candidate, from candidate k on
RECURSIVE WriteCandidates(_, _, _, _, _, _)
WriteCandidates(st, cands, k, annotator_id, text, now) ==
    IF k > Len(cands) THEN st
    ELSE WriteCandidates(
            [st EXCEPT !.graph = AddTripleToGraph(@, ConvertEdge(cands[k], annotator_id, text, now),
                                                  st.uuid),
                       !.uuid = @ + 1,
                       !.count = @ + 1,
                       !.written[Len(st.written)] = Append(@, st.uuid)],
            cands, k + 1, annotator_id, text, now)

\* a loop that also processes the documents without text
SkipNoDocument(text) == FALSE

\* if not text: continue
SkipDocument(text) == ~Truthy(text)

\* counters that start from the default language
ConvertStartWithDefault(gr, uuid) ==
    [graph |-> gr, uuid |-> uuid, count |-> 0, languages |-> {"en"}, written |-> << >>]

\* the counters before the loop over the corpus
ConvertStart(gr, uuid) ==
    [graph |-> gr, uuid |-> uuid, count |-> 0, languages |-> {}, written |-> << >>]

\* a summary that keeps the language of the last document only
KeepLastLanguage(languages, language) == {language}

\* languages_detected.add(language)
AddLanguage(languages, language) == languages \cup {language}

\* the loop over the corpus, from document i on
RECURSIVE ConvertFrom(_, _, _, _, _)
ConvertFrom(st, corpus, i, annotator_id, now) ==
    IF i > Len(corpus) THEN st
    ELSE LET doc == corpus[i]
             doc_id == IF doc.has_id THEN doc.id ELSE "doc_" \o ToString(st.uuid)
             next_uuid == IF doc.has_id THEN st.uuid ELSE st.uuid + 1
             language == DetectLanguage(doc.text)
             described == [st EXCEPT !.uuid = next_uuid,
                                     !.languages = AddLanguage(@, language),
                                     !.graph = @ \cup DocumentTriples(doc_id, doc.text, language),
                                     !.written = Append(@, << >>)]
         IN  IF SkipDocument(doc.text)
             THEN ConvertFrom([st EXCEPT !.written = Append(@, << >>)],
                              corpus, i + 1, annotator_id, now)
             ELSE ConvertFrom(
                     WriteCandidates(described,
                                     ExtractSimpleTriples(doc.text, doc_id, language),
                                     1, annotator_id, doc.text, now),
                     corpus, i + 1, annotator_id, now)

\* the texts of the corpus records
T_empty == Text(0, << >>)
T_ws == Text(1, << >>)
T_andres ==
    Text(0, <<W("A"), W("Andres"), W("le"), W("gustan"), W("las"), P("manzanas", ".")>>)
T_juana ==
    Text(0, <<W("Juana"), W("es"), W("alergica"), W("a"), W("las"), W("manzanas"),
              W("pero"), W("le"), W("gustan"), P("mucho", ".")>>)
T_alice == Text(0, <<W("Alice"), W("likes"), W("apples"), W("and"), P("oranges", ".")>>)
T_bob == Text(0, <<W("Bob"), W("owns"), W("a"), W("red"), P("car", ".")>>)
T_flip == Text(0, <<W("the"), W("x"), W("likes"), P("el", ".")>>)
T_two == Text(0, <<W("Ana"), W("likes"), P("tea", "."), W("Bob"), W("likes"), W("pan")>>)
T_ahmad == Text(0, <<W("Ahmad"), W("suka"), W("apel")>>)

Documents ==
    { Doc("d12", T_andres), Doc("d27", T_juana), Doc("d1", T_alice),
      Doc("d-1", T_flip), Doc("d_1", T_two), Doc("d1", T_empty), Doc("d2", T_ws),
      Doc("d12", T_ahmad), NoIdDoc(T_bob) }

\* convert_limitgraph_corpus(corpus_data, annotator_id); the clock is read
\* once for the call
ConvertLimitgraphCorpus ==
    /\ \E corpus \in SeqsUpTo(Documents, MaxDocs - docs), now \in Now :
        \E run \in {ConvertFrom(ConvertStart(graph, uuidCtr), corpus, 1, "corpus_processor", now)} :
            /\ graph' = run.graph
            /\ uuidCtr' = run.uuid
            /\ clock' = now
            /\ docs' = docs + Len(corpus)
            /\ last' = [op |-> "convert_limitgraph_corpus", corpus |-> corpus,
                        triples_count |-> run.count,
                        languages_detected |-> run.languages,
                        annotators |-> {"corpus_processor"},
                        written |-> run.written,
                        added |-> run.graph \ graph]
    /\ UNCHANGED <<dataset, annotators, ops>>

\* words of 49 and of 50 characters
Word49 == "abcdefghijklmnopqrstuvwxyzabcdefghijklmnopqrstuvw"

Word50 == "abcdefghijklmnopqrstuvwxyzabcdefghijklmnopqrstuvwx"

\* a LimitGraphTriple built by the caller
LimitGraphTriple(subject, predicate, object, confidence, language, annotator, timestamp, rlhf_feedback, provenance) ==
    [subject |-> Word(subject), predicate |-> predicate, object |-> object,
     confidence |-> confidence, source_language |-> language,
     annotator_id |-> annotator, timestamp |-> timestamp,
     rlhf_feedback |-> rlhf_feedback, provenance |-> provenance]

SomeProvenance ==
    [extraction_method |-> "manual", source_system |-> "LIMIT-Graph",
     conversion_timestamp |-> 0, source_text |-> T_andres]

SomeFeedback == [quality_score |-> 9, comment |-> "good"]

\* the triples given to add_triple_to_graph: the same surface triple with
\* different metadata, and objects on both sides of each test of _is_entity
Triples ==
    { LimitGraphTriple("Andres", "likes", Word("manzanas"), 9, "es", "ann1", 1, None, SomeProvenance),
      LimitGraphTriple("Andres", "likes", Word("manzanas"), 5, "en", "ann2", 2, SomeFeedback, None),
      LimitGraphTriple("Andres", "likes", Text(0, <<W("las"), P("manzanas", ".")>>), 9, "es", "ann1", 1, None, None),
      LimitGraphTriple("Andres", "likes", Text(0, <<P("manzanas", ","), W("peras")>>), 9, "es", "ann1", 1, None, None),
      LimitGraphTriple("Ana", "says", Text(0, <<P("si", "!")>>), 9, "es", "ann1", 1, None, None),
      LimitGraphTriple("Ana", "says", Text(0, <<P("si", "?")>>), 9, "en", "ann1", 1, None, None),
      LimitGraphTriple("Ana", "says", Text(1, <<W("si")>>), 9, "es", "ann1", 1, None, None),
      LimitGraphTriple("Ana", "says", Word(Word49), 9, "es", "ann1", 1, None, None),
      LimitGraphTriple("Ana", "says", Word(Word50), 9, "es", "ann1", 1, None, None),
      LimitGraphTriple("Ana", "says", Text(0, <<W(Word49), W("x")>>), 9, "id", "ann2", 1, None, None),
      LimitGraphTriple("Juana", "allergic_to", T_empty, 9, "es", "ann2", 1, None, SomeProvenance) }

\* add_triple_to_graph(triple) called directly
AddTripleToGraphCall ==
    /\ ops < MaxOps
    /\ \E triple \in Triples :
        /\ graph' = AddTripleToGraph(graph, triple, uuidCtr)
        /\ uuidCtr' = IF triple.rlhf_feedback # None THEN uuidCtr + 2 ELSE uuidCtr + 1
        /\ last' = [op |-> "add_triple_to_graph", triple |-> triple, returned |-> uuidCtr]
    /\ ops' = ops + 1
    /\ UNCHANGED <<dataset, annotators, clock, docs>>

\* a label as the sequence of its characters: a letter, a capital, a
\* digit, the connector, a space, a tab, a hyphen, a full stop, a slash
LabelChars == {"a", "Z", "7", "_", " ", "\t", "-", ".", "/"}

\* c.isalnum()
IsAlnum(c) == c \in {"a", "Z", "7"}

\* component.replace(" ", "_").replace("-", "_"), character by character
ReplaceChars(component) ==
    [i \in DOMAIN component |-> IF component[i] \in {" ", "-"} THEN "_" ELSE component[i]]

\* "".join(c for c in cleaned if c.isalnum() or c == "_")
RECURSIVE KeepChars(_, _)
KeepChars(cleaned, i) ==
    IF i > Len(cleaned) THEN << >>
    ELSE (IF IsAlnum(cleaned[i]) \/ cleaned[i] = "_" THEN <<cleaned[i]>> ELSE << >>)
         \o KeepChars(cleaned, i + 1)

\* _clean_uri_component(component) on the characters of the label
CleanUriComponent(component) == KeepChars(ReplaceChars(component), 1)

Labels == SeqsUpTo(LabelChars, MaxLabelLen)

CleanUriComponentCall ==
    /\ last.op = "label"
    /\ last' = [op |-> "_clean_uri_component", component |-> last.label,
                returned |-> CleanUriComponent(last.label)]
    /\ UNCHANGED <<dataset, annotators, graph, uuidCtr, clock, ops, docs>>

\* the chunks of the texts given to detect_language
LangChunks == {W("la"), W("The"), W("and"), W("ini"), W("fi"), W("x"), P("el", ".")}

LangTexts == {Text(sp, ch) : sp \in {0, 1}, ch \in SeqsUpTo(LangChunks, MaxWords)}

DetectLanguageCall ==
    /\ last.op = "text"
    /\ last' = [op |-> "detect_language", text |-> last.text,
                returned |-> DetectLanguage(last.text)]
    /\ UNCHANGED <<dataset, annotators, graph, uuidCtr, clock, ops, docs>>

\* ------------------------------------------------------ SPARQL interface
\* A query string is a sequence of tokens: a piece of template text that
\* holds no quote and no backslash, or one character of a caller's value.
Quote == "\""

Backslash == "\\"

\* the characters of a caller-supplied value: an ordinary one, and the two
\* that the SPARQL string-literal grammar treats specially
ParamChars == {"a", Quote, Backslash}

\* a str parameter; None and '' are both the empty sequence (both falsy)
Params == SeqsUpTo(ParamChars, MaxParamLen)

\* the value 'all'
All == <<"all">>

Plain == {<< >>, <<"a">>}

\* f'"{value}"'
Quoted(value) == <<Quote>> \o value \o <<Quote>>

\* f"\nLIMIT {limit}" with the default limit
LimitClause == <<"LIMIT 50">>

KeywordTokens == {"SELECT", "ASK", "CONSTRUCT", "DESCRIBE"}

\* 'all' in languages
HasAll(languages) == \E i \in 1..Len(languages) : languages[i] = All

\* " || ".join(f'?language = "{lang}"' for lang in languages)
RECURSIVE LangConditions(_, _)
LangConditions(languages, i) ==
    IF i > Len(languages) THEN << >>
    ELSE (IF i > 1 THEN <<" || ">> ELSE << >>)
         \o <<"?language = ">> \o Quoted(languages[i])
         \o LangConditions(languages, i + 1)

\* the language filter of multilingual_search and cross_cultural_analysis
LanguagesFilter(languages) ==
    IF languages # << >> /\ ~HasAll(languages)
    THEN <<"FILTER(">> \o LangConditions(languages, 1) \o <<")">>
    ELSE << >>

EntitiesByTypeQuery(entity_type, language) ==
    LET language_filter ==
            IF language # << >> /\ language # All
            THEN <<"FILTER(LANG(?label) = ">> \o Quoted(language) \o <<")">>
            ELSE << >>
    IN  <<"PREFIX", "SELECT",
          "?entity ?label ?type WHERE { ?entity rdf:type ?type . ?entity rdfs:label ?label . FILTER(?type = lgont:">>
        \o entity_type \o <<")">> \o language_filter
        \o <<"} ORDER BY ?label">> \o LimitClause

RelationshipsQuery(subject, predicate, language) ==
    LET subject_filter ==
            IF subject # << >>
            THEN <<"FILTER(CONTAINS(LCASE(?subjectLabel), LCASE(">>
                 \o Quoted(subject) \o <<")))">>
            ELSE << >>
        predicate_filter ==
            IF predicate # << >>
            THEN <<"FILTER(CONTAINS(STR(?predicate), ">>
                 \o Quoted(predicate) \o <<"))">>
            ELSE << >>
        language_filter ==
            IF language # << >> /\ language # All
            THEN <<"FILTER(LANG(?subjectLabel) = ">> \o Quoted(language)
                 \o <<" || LANG(?objectLabel) = ">> \o Quoted(language)
                 \o <<")">>
            ELSE << >>
    IN  <<"PREFIX", "SELECT",
          "?subject ?predicate ?object ?subjectLabel ?objectLabel WHERE { ?statement lgont:hasSubject ?subject . ... ">>
        \o subject_filter \o predicate_filter \o language_filter
        \o <<"} ORDER BY ?subjectLabel">> \o LimitClause

MultilingualSearchQuery(search_term, languages) ==
    LET languages_filter == LanguagesFilter(languages)
        language_filter ==
            IF languages_filter # << >>
            THEN languages_filter \o <<" FILTER(?confidence >= 0.5)">>
            ELSE <<"FILTER(?confidence >= 0.5)">>
    IN  <<"PREFIX", "SELECT",
          "?entity ?label ?language ?text ?confidence WHERE { ?langAnnotation lgont:annotatesStatement ?statement . ... FILTER(CONTAINS(LCASE(?text), LCASE(">>
        \o Quoted(search_term) \o <<")))">> \o language_filter
        \o <<"} ORDER BY DESC(?confidence)">> \o LimitClause

RlhfAnalysisQuery(feedback_type, min_quality) ==
    LET feedback_type_filter ==
            IF feedback_type # << >>
            THEN <<"FILTER(?feedbackType = ">> \o Quoted(feedback_type)
                 \o <<")">>
            ELSE << >>
        quality_filter ==
            IF min_quality > 0
            THEN <<"FILTER(?qualityScore >= 0." \o ToString(min_quality) \o ")">>
            ELSE << >>
    IN  <<"PREFIX", "SELECT",
          "?feedback ?statementId ?feedbackType ?qualityScore ?relevanceScore ?culturalScore ?annotator ?timestamp WHERE { ?feedback lgont:statementId ?statementId . ... ">>
        \o feedback_type_filter \o quality_filter
        \o <<"} ORDER BY DESC(?qualityScore)">> \o <<"LIMIT 100">>

CrossCulturalQuery(concept_term, languages) ==
    <<"PREFIX", "SELECT",
      "?concept ?label ?altLabel ?language ?culturalContext WHERE { ?concept rdfs:label ?label . ... FILTER(CONTAINS(LCASE(?label), LCASE(">>
    \o Quoted(concept_term)
    \o <<")) || CONTAINS(LCASE(?altLabel), LCASE(">>
    \o Quoted(concept_term) \o <<")))">> \o LanguagesFilter(languages)
    \o <<"} ORDER BY ?language ?culturalContext">> \o LimitClause

\* the values a method writes between quotes, in the order of the query
Each(languages) == IF languages # << >> /\ ~HasAll(languages) THEN languages ELSE << >>

Opt(value) == IF value # << >> THEN <<value>> ELSE << >>

OptLang(language) ==
    IF language # << >> /\ language # All THEN <<language>> ELSE << >>

\* the engine's reading of the string literals of a query: a literal runs
\* from a quote to the next quote that no backslash escapes, and a
\* backslash stands before a character the grammar lets it escape
EscapeChars == {Quote, Backslash}

RECURSIVE Lex(_, _, _, _, _)
Lex(q, i, inside, cur, lits) ==
    IF i > Len(q) THEN [ok |-> ~inside, lits |-> lits]
    ELSE IF inside
         THEN IF q[i] = Quote
              THEN Lex(q, i + 1, FALSE, << >>, Append(lits, cur))
              ELSE IF q[i] = Backslash
                   THEN IF i < Len(q) /\ q[i + 1] \in EscapeChars
                        THEN Lex(q, i + 2, TRUE, Append(cur, q[i + 1]), lits)
                        ELSE [ok |-> FALSE, lits |-> lits]
                   ELSE Lex(q, i + 1, TRUE, Append(cur, q[i]), lits)
         ELSE IF q[i] = Quote
              THEN Lex(q, i + 1, TRUE, << >>, lits)
              ELSE IF q[i] = Backslash
                   THEN [ok |-> FALSE, lits |-> lits]
                   ELSE Lex(q, i + 1, FALSE, << >>, lits)

StringLiterals(q) == Lex(q, 1, FALSE, << >>, << >>)

\* str.lower() on a token
LowerToken(tok) ==
    CASE tok = "SELECT" -> "select"
      [] tok = "ASK" -> "ask"
      [] tok = "CONSTRUCT" -> "construct"
      [] tok = "DESCRIBE" -> "describe"
      [] OTHER -> tok

\* the query form the engine's parser sees: the first token after the
\* prologue, keywords in either case
RECURSIVE QueryForm(_, _)
QueryForm(q, i) ==
    IF i > Len(q) THEN "none"
    ELSE IF q[i] = "PREFIX" THEN QueryForm(q, i + 1)
    ELSE IF LowerToken(q[i]) \in {"select", "ask", "construct", "describe"}
         THEN LowerToken(q[i])
         ELSE "none"

ParseOk(q) == StringLiterals(q).ok /\ QueryForm(q, 1) # "none"

\* the rows a SELECT may bring back
Row1 == [entity |-> URI("LGDATA", "manzanas"),
         label |-> Literal("manzanas", "", "es")]

Row2 == [entity |-> URI("LGDATA", "apple"),
         label |-> Literal("apple", "", "")]

ResultRows == {<< >>, <<Row1>>, <<Row1, Row2>>}

\* the query of get_available_languages and rows it may bring back
AvailableLanguagesQuery ==
    <<"PREFIX", "SELECT",
      "DISTINCT ?language ?languageName (COUNT(?annotation) as ?count) WHERE { ?annotation lgont:languageCode ?language . OPTIONAL { ... } } GROUP BY ?language ?languageName ORDER BY DESC(?count)">>

LanguageRow(code, name, count) ==
    [language |-> Literal(code, "", ""), languageName |-> Literal(name, "", ""),
     count |-> NumLiteral(count, "xsd:integer")]

LanguageRows ==
    {<< >>, <<LanguageRow("es", "Spanish", 2)>>,
     <<LanguageRow("es", "Spanish", 2), LanguageRow("ar", "Arabic", 1)>>}

\* the query of get_entity_types and rows it may bring back
EntityTypesQuery ==
    <<"PREFIX", "SELECT",
      "DISTINCT ?type ?typeLabel (COUNT(?entity) as ?count) WHERE { ?entity rdf:type ?type . ?type rdfs:label ?typeLabel . FILTER(STRSTARTS(STR(?type), STR(lgont:))) } GROUP BY ?type ?typeLabel ORDER BY DESC(?count)">>

TypeRow(type, label, count) ==
    [type |-> URI("LGONT", type), typeLabel |-> Literal(label, "", "en"),
     count |-> NumLiteral(count, "xsd:integer")]

TypeRows ==
    {<< >>, <<TypeRow("Statement", "Statement", 3)>>,
     <<TypeRow("Statement", "Statement", 3), TypeRow("Annotator", "Annotator", 1)>>}

\* the rows the engine may find for a query
RowsFor(q) ==
    IF q = AvailableLanguagesQuery THEN LanguageRows
    ELSE IF q = EntityTypesQuery THEN TypeRows
    ELSE ResultRows

Failure(msg) == [kind |-> "raise", msg |-> msg, rows |-> << >>]

\* what self.dataset.query(query) can do: raise, or bring back the rows of
\* a SELECT, the answer of an ASK, the triples of a CONSTRUCT or DESCRIBE
\* ("other": items that are no rows), or no triple at all ("empty")
EngineOutcomes(q) ==
    IF ~ParseOk(q) THEN {Failure("parse error")}
    ELSE {Failure("evaluation error")}
         \cup (IF QueryForm(q, 1) = "select"
               THEN {[kind |-> "rows", msg |-> "", rows |-> r] : r \in RowsFor(q)}
               ELSE {[kind |-> "other", msg |-> "", rows |-> << >>]})
         \cup (IF QueryForm(q, 1) \in {"construct", "describe"}
               THEN {[kind |-> "empty", msg |-> "", rows |-> << >>]}
               ELSE {})

\* the seconds between the two readings of datetime.now() around the
\* engine's work: none, a few, more than the default timeout
Durations == {0, 2, 31}

\* the engine's work with the time it takes
EngineRuns(q) == {[elapsed |-> d] @@ o : o \in EngineOutcomes(q), d \in Durations}

\* 'select' in query_lower, and so on: the keyword occurs in some token
Occurs(kw, q) == \E i \in 1..Len(q) : LowerToken(q[i]) = kw

DetermineQueryType(q) ==
    IF Occurs("select", q) THEN "select"
    ELSE IF Occurs("construct", q) THEN "construct"
    ELSE IF Occurs("ask", q) THEN "ask"
    ELSE IF Occurs("describe", q) THEN "describe"
    ELSE "unknown"

\* str(value) of a term
Str(term) ==
    IF term.k = "uri" THEN term.ns \o ":" \o term.v
    ELSE IF term.dt \in {"xsd:integer", "xsd:float", "xsd:dateTime"} THEN ToString(term.n)
    ELSE term.v

ProcessRow(row) == [var \in DOMAIN row |-> Str(row[var])]

RowLanguages(row) ==
    {row[var].lang : var \in {v \in DOMAIN row : row[v].k = "lit" /\ row[v].lang # ""}}

\* an exception that leaves execute_query
Propagate(query, msg) ==
    [raised |-> TRUE, query |-> query, results |-> << >>, result_count |-> 0,
     languages_found |-> {}, query_type |-> "none"]

\* except Exception as e: the failure comes back as a result
ErrorResult(query, msg) ==
    [raised |-> FALSE, query |-> query, results |-> <<[error |-> msg]>>,
     result_count |-> 0, languages_found |-> {}, query_type |-> "error"]

\* timeout: int = 30
DefaultTimeout == 30

\* execute_query(query, timeout), the engine doing `outcome`; the body
\* never reads timeout, and execution_time is what the engine took
ExecuteQuery(query, timeout, outcome) ==
    [execution_time |-> outcome.elapsed] @@
    (IF outcome.kind = "raise" THEN ErrorResult(query, outcome.msg)
     ELSE IF outcome.kind = "other"
          THEN ErrorResult(query, "object has no attribute 'labels'")
     ELSE LET processed == [i \in 1..Len(outcome.rows) |-> ProcessRow(outcome.rows[i])]
          IN  [raised |-> FALSE, query |-> query, results |-> processed,
               result_count |-> Len(processed),
               languages_found |-> UNION {RowLanguages(outcome.rows[i]) : i \in 1..Len(outcome.rows)},
               query_type |-> DetermineQueryType(query)])

\* the arguments of the calls
LanguageLists ==
    {<< >>, <<All>>} \cup {<<l>> : l \in Params}
    \cup {<<l, m>> : l \in Plain \cup {All}, m \in Plain}

EntityTypes == {<<"Person">>} \cup Plain

CustomQueries ==
    {<<"INVALID", "SPARQL", "SYNTAX">>,
     <<"SELECT", "* WHERE { ?s ?p ?o }">>,
     <<"select", "* WHERE { ?s ?p ">>  \o Quoted(<<"a">>) \o <<"}">>,
     <<"ASK", "{ ?s ?p ?o }">>,
     <<"ASK", "{ ?s ?p ">> \o Quoted(<<"select">>) \o <<"}">>,
     <<"CONSTRUCT", "{ ?s ?p ?o } WHERE { ?s ?p ?o }">>,
     <<"CONSTRUCT", "{ ?s ?p ?o } WHERE { ?s ?p ">> \o Quoted(<<"select">>) \o <<"}">>,
     <<"DESCRIBE", "?s WHERE { ?s ?p ">> \o Quoted(<<"ask">>) \o <<"}">>,
     <<"SELECT", "* WHERE { ?s ?p ">> \o <<Quote, "a", "}">>}

Requests ==
    {[method |-> "find_entities_by_type", entity_type |-> t, language |-> l, literals |-> OptLang(l)] :
        t \in EntityTypes, l \in Params \cup {All}}
    \cup {[method |-> "find_relationships", subject |-> a[1], predicate |-> a[2], language |-> a[3],
           literals |-> Opt(a[1]) \o Opt(a[2]) \o OptLang(a[3]) \o OptLang(a[3])] :
            a \in (Params \X Plain \X Plain) \cup (Plain \X Params \X Plain)
                  \cup (Plain \X Plain \X (Params \cup {All}))}
    \cup {[method |-> "multilingual_search", search_term |-> a[1], languages |-> a[2],
           literals |-> <<a[1]>> \o Each(a[2])] :
            a \in (Params \X {<< >>, <<All>>, <<<<"a">>>>}) \cup (Plain \X LanguageLists)}
    \cup {[method |-> "analyze_rlhf_feedback", feedback_type |-> f, min_quality |-> m, literals |-> Opt(f)] :
            f \in Params, m \in {0, 8}}
    \cup {[method |-> "cross_cultural_analysis", concept_term |-> a[1], languages |-> a[2],
           literals |-> <<a[1], a[1]>> \o Each(a[2])] :
            a \in (Params \X {<< >>, <<All>>, <<<<"a">>>>}) \cup (Plain \X LanguageLists)}
    \cup {[method |-> "custom_query", query |-> q, literals |-> << >>] : q \in CustomQueries}
    \cup {[method |-> "execute_query", query |-> q, timeout |-> t, literals |-> << >>] :
            q \in CustomQueries, t \in {1, DefaultTimeout}}
    \cup {[method |-> "get_query_suggestions", language |-> l] : l \in {"en", "es", "fr"}}
    \cup {[method |-> "get_available_languages"], [method |-> "get_entity_types"]}

\* an engine that takes the query for an update
DatasetAfterUpdate(ds, query) ==
    AddTriples(ds, "main", {<<URI("LGDATA", "s"), "lgont:p", URI("LGDATA", "o")>>})

\* the dataset after self.dataset.query(query): a query only reads
DatasetAfterQuery(ds, query) == ds

\* return self.execute_query(query)
Executed(query, timeout) ==
    /\ \E outcome \in EngineRuns(query) :
        last' = [op |-> last.method, request |-> last, query |-> query,
                 timeout |-> timeout, engine |-> outcome,
                 result |-> ExecuteQuery(query, timeout, outcome)]
    /\ dataset' = DatasetAfterQuery(dataset, query)
    /\ UNCHANGED <<annotators, graph, uuidCtr, clock, ops, docs>>

FindEntitiesByType ==
    /\ last.op = "request" /\ last.method = "find_entities_by_type"
    /\ Executed(EntitiesByTypeQuery(last.entity_type, last.language), DefaultTimeout)

FindRelationships ==
    /\ last.op = "request" /\ last.method = "find_relationships"
    /\ Executed(RelationshipsQuery(last.subject, last.predicate, last.language), DefaultTimeout)

MultilingualSearch ==
    /\ last.op = "request" /\ last.method = "multilingual_search"
    /\ Executed(MultilingualSearchQuery(last.search_term, last.languages), DefaultTimeout)

AnalyzeRlhfFeedback ==
    /\ last.op = "request" /\ last.method = "analyze_rlhf_feedback"
    /\ Executed(RlhfAnalysisQuery(last.feedback_type, last.min_quality), DefaultTimeout)

CrossCulturalAnalysis ==
    /\ last.op = "request" /\ last.method = "cross_cultural_analysis"
    /\ Executed(CrossCulturalQuery(last.concept_term, last.languages), DefaultTimeout)

CustomQuery ==
    /\ last.op = "request" /\ last.method = "custom_query"
    /\ Executed(last.query, DefaultTimeout)

\* execute_query(query, timeout) called directly
ExecuteQueryCall ==
    /\ last.op = "request" /\ last.method = "execute_query"
    /\ Executed(last.query, last.timeout)

\* self.query_templates: the catalogue, in the insertion order of the dict
TemplateNames ==
    <<"entities_by_type", "relationships", "multilingual_search", "rlhf_analysis",
      "cross_cultural">>

TemplateParameters ==
    [entities_by_type |-> <<"entity_type", "language">>,
     relationships |-> <<"subject", "predicate", "language">>,
     multilingual_search |-> <<"search_term", "language">>,
     rlhf_analysis |-> <<"feedback_type", "min_quality">>,
     cross_cultural |-> <<"concept_term", "language">>]

ExampleValues ==
    [entities_by_type |-> [entity_type |-> "Person", language |-> "en"],
     relationships |-> [subject |-> "Andres", predicate |-> "likes", language |-> "es"],
     multilingual_search |-> [search_term |-> "manzanas", language |-> "es"],
     rlhf_analysis |-> [feedback_type |-> "positive", min_quality |-> "0.8"],
     cross_cultural |-> [concept_term |-> "apple", language |-> "all"]]

\* the languages every template has a description in
DescriptionLanguages == {"en", "es", "ar", "id"}

\* template.description.get(language, template.description.get('en', ''))
Description(name, language) ==
    name \o "/" \o (IF language \in DescriptionLanguages THEN language ELSE "en")

\* get_query_suggestions(language): it reads the catalogue and nothing else
GetQuerySuggestions ==
    /\ last.op = "request" /\ last.method = "get_query_suggestions"
    /\ last' = [op |-> "get_query_suggestions", request |-> last,
                returned |-> [i \in DOMAIN TemplateNames |->
                                [name |-> TemplateNames[i],
                                 description |-> Description(TemplateNames[i], last.language),
                                 parameters |-> TemplateParameters[TemplateNames[i]],
                                 example_values |-> ExampleValues[TemplateNames[i]]]]]
    /\ UNCHANGED <<dataset, annotators, graph, uuidCtr, clock, ops, docs>>

\* self.supported_languages of the interface
InterfaceLanguages ==
    [en |-> "English", es |-> "Spanish", ar |-> "Arabic", id |-> "Indonesian",
     zh |-> "Chinese", hi |-> "Hindi", fr |-> "French", de |-> "German"]

\* row.get(key, default)
Get(row, key, default) == IF key \in DOMAIN row THEN row[key] ELSE default

\* int(value) on the str of a count, or on the default 0
IntOf(value) == IF value = "" THEN 0 ELSE CHOOSE n \in 0..9 : ToString(n) = value

\* the list get_available_languages builds from result.results
AvailableLanguages(results) ==
    [i \in DOMAIN results |->
        LET lang_code == Get(results[i], "language", "")
        IN  [code |-> lang_code,
             name |-> Get(results[i], "languageName",
                          IF lang_code \in DOMAIN InterfaceLanguages
                          THEN InterfaceLanguages[lang_code] ELSE lang_code),
             annotation_count |-> IntOf(Get(results[i], "count", ""))]]

\* entity_type.split('/')[-1]: the local name of a type URI
SimpleName(entity_type) ==
    IF \E t \in {"Statement", "Annotator"} : Str(URI("LGONT", t)) = entity_type
    THEN CHOOSE t \in {"Statement", "Annotator"} : Str(URI("LGONT", t)) = entity_type
    ELSE entity_type

\* the list get_entity_types builds from result.results
EntityTypeList(results) ==
    [i \in DOMAIN results |->
        LET entity_type == Get(results[i], "type", "")
        IN  [uri |-> entity_type, name |-> SimpleName(entity_type),
             label |-> Get(results[i], "typeLabel", ""),
             count |-> IntOf(Get(results[i], "count", ""))]]

GetAvailableLanguages ==
    /\ last.op = "request" /\ last.method = "get_available_languages"
    /\ \E outcome \in EngineRuns(AvailableLanguagesQuery) :
        LET result == ExecuteQuery(AvailableLanguagesQuery, DefaultTimeout, outcome)
        IN  last' = [op |-> "get_available_languages", request |-> last,
                     query |-> AvailableLanguagesQuery, engine |-> outcome,
                     result |-> result, returned |-> AvailableLanguages(result.results)]
    /\ dataset' = DatasetAfterQuery(dataset, AvailableLanguagesQuery)
    /\ UNCHANGED <<annotators, graph, uuidCtr, clock, ops, docs>>

GetEntityTypes ==
    /\ last.op = "request" /\ last.method = "get_entity_types"
    /\ \E outcome \in EngineRuns(EntityTypesQuery) :
        LET result == ExecuteQuery(EntityTypesQuery, DefaultTimeout, outcome)
        IN  last' = [op |-> "get_entity_types", request |-> last,
                     query |-> EntityTypesQuery, engine |-> outcome,
                     result |-> result, returned |-> EntityTypeList(result.results)]
    /\ dataset' = DatasetAfterQuery(dataset, EntityTypesQuery)
    /\ UNCHANGED <<annotators, graph, uuidCtr, clock, ops, docs>>


\* --------------------------------------------------------- the machine
Init ==
    /\ dataset = EmptyDataset
    /\ annotators = << >>
    /\ graph = {}
    /\ uuidCtr = 1
    /\ clock = 0
    /\ ops = 0
    /\ docs = 0
    /\ last = [op |-> "init"]

NextStore == AddRlhfFeedbackTrace \/ RegisterAnnotator

SpecStore == Init /\ [][NextStore]_vars

NextExport == ExportNamedGraphs

SpecExport == Init /\ [][NextExport]_vars

\* a fresh generator and a text about to be given to detect_language
InitLang ==
    /\ dataset = EmptyDataset
    /\ annotators = << >>
    /\ graph = {}
    /\ uuidCtr = 1
    /\ clock = 0
    /\ ops = 0
    /\ docs = 0
    /\ \E text \in LangTexts : last = [op |-> "text", text |-> text]

NextLang == DetectLanguageCall

SpecLang == InitLang /\ [][NextLang]_vars

\* a label about to be given to _clean_uri_component
InitClean ==
    /\ dataset = EmptyDataset
    /\ annotators = << >>
    /\ graph = {}
    /\ uuidCtr = 1
    /\ clock = 0
    /\ ops = 0
    /\ docs = 0
    /\ \E label \in Labels : last = [op |-> "label", label |-> label]

NextClean == CleanUriComponentCall

SpecClean == InitClean /\ [][NextClean]_vars

NextGen == ConvertLimitgraphCorpus

SpecGen == Init /\ [][NextGen]_vars

\* the manager the interface reads from: a fresh one, and one after
\* register_annotator, add_rlhf_feedback_trace and add_language_annotation
FreshStore == [dataset |-> EmptyDataset, annotators |-> << >>, uuid |-> 1]

UsedStore ==
    LET p == CHOOSE q \in Profiles : q.annotator_id = "ann1" /\ q.name = "Maria"
        registered == [EmptyDataset EXCEPT !["annotators"] = RegisterWrite(@, p)]
        traced == FeedbackWrite(registered, Trace("fb1", "positive", 9, "good", "ann1", ""), 1, 0)
        annotated == [traced EXCEPT !["languages"] =
                        EnsureLanguageMetadata(
                            @ \cup AnnotationTriples(URI("LGDATA", "statement_1"),
                                                     LanguageAnnotation("manzanas", "es", 9, ""), 2),
                            "es")]
    IN  [dataset |-> annotated, annotators |-> [a \in {"ann1"} |-> p], uuid |-> 3]

\* an interface over the dataset of a manager and a call about to be made
InitQuery ==
    /\ \E store \in {FreshStore, UsedStore} :
        /\ dataset = store.dataset
        /\ annotators = store.annotators
        /\ uuidCtr = store.uuid
    /\ graph = {}
    /\ clock = 0
    /\ ops = 0
    /\ docs = 0
    /\ \E request \in Requests :
        last = [op |-> "request"] @@ request

NextQuery ==
    \/ FindEntitiesByType
    \/ FindRelationships
    \/ MultilingualSearch
    \/ AnalyzeRlhfFeedback
    \/ CrossCulturalAnalysis
    \/ CustomQuery
    \/ ExecuteQueryCall
    \/ GetQuerySuggestions
    \/ GetAvailableLanguages
    \/ GetEntityTypes

SpecQuery == InitQuery /\ [][NextQuery]_vars

\* a store in use that also holds a provenance record
FullStore ==
    [dataset |-> AddTriples(UsedStore.dataset, "provenance",
                            ProvenanceRecord(URI("LGDATA", "statement_1"),
                                             {<<"method", Val("str", "manual", 0)>>},
                                             UsedStore.uuid, 0)),
     annotators |-> UsedStore.annotators,
     uuid |-> UsedStore.uuid + 1]

\* a manager whose store is new or in use, about to be written to
InitManager ==
    /\ \E store \in {FreshStore, UsedStore, FullStore} :
        /\ dataset = store.dataset
        /\ annotators = store.annotators
        /\ uuidCtr = store.uuid
    /\ graph = {}
    /\ clock = 0
    /\ ops = 0
    /\ docs = 0
    /\ last = [op |-> "init"]

\* one write operation of the manager on that store
NextManager ==
    \/ ops = 0 /\ RegisterAnnotator
    \/ ops = 0 /\ AddLanguageAnnotation
    \/ ops = 0 /\ AddProvenanceTrace
    \/ ops = 0 /\ AddRlhfFeedbackTrace

SpecManager == InitManager /\ [][NextManager]_vars

\* a manager whose store is new or in use
InitFeedback ==
    /\ \E store \in {FreshStore, UsedStore} :
        /\ dataset = store.dataset
        /\ annotators = store.annotators
        /\ uuidCtr = store.uuid
    /\ graph = {}
    /\ clock = 0
    /\ ops = 0
    /\ docs = 0
    /\ last = [op |-> "init"]

NextFeedback ==
    \/ AddRlhfFeedbackTrace
    \/ RegisterAnnotator
    \/ QueryRlhfFeedback

SpecFeedback == InitFeedback /\ [][NextFeedback]_vars

\* the writes that record a statement with its annotator, on the manager
\* and on the generator of one system, and the query by annotator
NextProvenance ==
    \/ AddProvenanceTrace
    \/ AddTripleToGraphCall
    \/ QueryByAnnotator

SpecProvenance == Init /\ [][NextProvenance]_vars

\* the dataset holds nothing outside the partitions gs
OnlyIn(gs) == \A g \in GraphNames \ gs : dataset[g] = {}

\* every write operation of the two classes.  The generator and the
\* manager share no store (create_full_rdf_system gives the generator its
\* own Graph and the manager its own Dataset), and the manager's
\* operations write to partitions of their own (feedback and
\* registration: rlhf, audit, annotators; annotation: languages;
\* provenance: provenance), so a behaviour is made of the operations on
\* one of these stores
NextWrites ==
    \/ /\ graph = {} /\ OnlyIn({"rlhf", "audit", "annotators"})
       /\ (AddRlhfFeedbackTrace \/ RegisterAnnotator)
    \/ /\ graph = {} /\ OnlyIn({"languages"})
       /\ AddLanguageAnnotation
    \/ /\ graph = {} /\ OnlyIn({"provenance"})
       /\ AddProvenanceTrace
    \/ /\ dataset = EmptyDataset /\ ops = 0
       /\ ConvertLimitgraphCorpus
    \/ /\ dataset = EmptyDataset /\ docs = 0
       /\ AddTripleToGraphCall

SpecWrites == Init /\ [][NextWrites]_vars

NextTriple == AddTripleToGraphCall

SpecTriple == Init /\ [][NextTriple]_vars

NextLanguages == AddLanguageAnnotation

SpecLanguages == Init /\ [][NextLanguages]_vars

\* ============================================================== claims
\* the AuditEntry records of the audit partition
AuditEntries(ds) == Subjects(ds["audit"], URI("LGONT", "AuditEntry"))

\* C1: add_rlhf_feedback_trace with a feedback_type outside positive,
\* negative, correction fails with InvalidFeedbackKind and leaves the
\* feedback partition and the audit partition as they were.
C1_InvalidKindRejected ==
    [][(AddRlhfFeedbackTrace /\ last'.trace.feedback_type \notin FeedbackKinds)
        => /\ last'.outcome = "InvalidFeedbackKind"
           /\ dataset'["rlhf"] = dataset["rlhf"]
           /\ dataset'["audit"] = dataset["audit"]]_vars

\* C2: every successful add_rlhf_feedback_trace call adds exactly one
\* AuditEntry record to the audit partition, with action rlhf_feedback_added.
C2_OneAuditEntryPerFeedback ==
    [][(AddRlhfFeedbackTrace /\ last'.outcome = "ok")
        => /\ AuditEntries(dataset) \subseteq AuditEntries(dataset')
           /\ Cardinality(AuditEntries(dataset')) = Cardinality(AuditEntries(dataset)) + 1
           /\ \A e \in AuditEntries(dataset') \ AuditEntries(dataset) :
                Objects(dataset'["audit"], e, "lgont:action")
                    = {Literal("rlhf_feedback_added", "", "")}]_vars

\* two successful feedback calls have been made and two audit entries exist
C2_Witness ==
    /\ last.op = "add_rlhf_feedback_trace"
    /\ last.outcome = "ok"
    /\ Cardinality(AuditEntries(dataset)) = 2
    /\ ops = 2

\* C9: export_named_graphs attempts every (partition, format) pair, a failing
\* pair stops no other pair, and the returned map holds exactly the pairs
\* whose serialization succeeded.
C9_ExportCollectsAndReports ==
    last.op = "export_named_graphs" =>
        /\ last.attempted = ExportPairs
        /\ last.returned = {ExportPairs[i] : i \in DOMAIN ExportPairs} \ last.fails

\* an export in which the first pair failed and a later pair was exported
C9_Witness ==
    /\ last.op = "export_named_graphs"
    /\ <<"main", "turtle">> \in last.fails
    /\ <<"audit", "json-ld">> \in last.returned
    /\ Cardinality(last.fails) = 2

\* C10: the annotators partition holds, for each registered annotator_id,
\* exactly the values of the profile most recently registered under that id.
C10_ReplaceById ==
    \A a \in DOMAIN annotators :
        {t \in dataset["annotators"] : t[1] = URI("LGANG", a)}
            = AnnotatorTriples(annotators[a])

\* the codes detect_language can tell apart
SupportedCodes == {"es", "ar", "id", "en"}

\* no token of the text is in any stop-word list
NoStopWord(text) ==
    \A i \in DOMAIN text.ch :
        \A lang \in DOMAIN LanguagePatterns : Split(text)[i] \notin LanguagePatterns[lang]

Statements(gr) == Subjects(gr, URI("LGONT", "Statement"))

\* the contains_text statements written while document i of the last
\* converted corpus was processed
ContainsTextWritten(i) ==
    { u \in {last.written[i][k] : k \in DOMAIN last.written[i]} :
        /\ StatementURI(u) \in Statements(last.added)
        /\ <<StatementURI(u), "lgont:hasPredicate", URI("LGONT", "contains_text")>> \in graph }

\* the entity add_triple_to_graph makes of the subject document_<id>
DocumentSubject(doc) == URI("LGDATA", Clean(Word("document_" \o doc.id)))

C7_AndresExample ==
    (last.op = "convert_limitgraph_corpus" /\ last.corpus = <<Doc("d12", T_andres)>>) =>
        /\ DetectLanguage(T_andres) = "es"
        /\ ExtractSimpleTriples(T_andres, "d12", "es")
              = << Candidate(Word("Andres"), "likes", Text(0, <<W("las"), W("manzanas")>>), 9, "d12"),
                   Candidate(Word("document_d12"), "contains_text", T_andres, 10, "d12") >>
        /\ last.triples_count = 2
        /\ Cardinality(Statements(last.added)) = 2
        /\ <<URI("LGDATA", "Andres"), "lgont:likes", URI("LGDATA", "las_manzanas")>> \in graph
        /\ \A st \in Statements(last.added) :
              Objects(graph, st, "lgont:sourceLanguage") = {Literal("es", "xsd:string", "")}

\* the single document has been converted into a graph that held statements
C7_Witness ==
    /\ last.op = "convert_limitgraph_corpus"
    /\ last.corpus = <<Doc("d12", T_andres)>>
    /\ Cardinality(Statements(graph)) > 2

\* C8: convert_limitgraph_corpus on an empty corpus returns triples_count 0
\* and no language and leaves the graph as it was, whatever it held.
C8_EmptyCorpus ==
    [][(last'.op = "convert_limitgraph_corpus" /\ last'.corpus = << >>)
        => /\ graph' = graph
           /\ last'.triples_count = 0
           /\ last'.languages_detected = {}]_vars

\* an empty corpus has been converted by a generator whose graph holds triples
C8_Witness ==
    /\ last.op = "convert_limitgraph_corpus"
    /\ last.corpus = << >>
    /\ Statements(graph) # {}

TemplateMethods ==
    {"find_entities_by_type", "find_relationships", "multilingual_search",
     "analyze_rlhf_feedback", "cross_cultural_analysis"}

\* C4: every caller-supplied string parameter reaches the engine as the
\* content of a string literal: the rendered query is lexically well formed
\* and its string literals are exactly the values the caller gave, in order
C4_ParametersEscaped ==
    last.op \in TemplateMethods =>
        /\ StringLiterals(last.query).ok
        /\ StringLiterals(last.query).lits = last.request.literals

\* C5: when the engine raises, execute_query and custom_query let nothing
\* propagate and return a result with query_type 'error', result_count 0,
\* no language and the failure message
C5_FailureCaptured ==
    (last.op \in TemplateMethods \cup {"custom_query", "execute_query"} /\ last.engine.kind = "raise") =>
        /\ ~last.result.raised
        /\ last.result.query_type = "error"
        /\ last.result.result_count = 0
        /\ last.result.languages_found = {}
        /\ last.result.results = <<[error |-> last.engine.msg]>>
        /\ last.result.query = last.query

\* custom_query on a query the engine rejects, and a rendered query that
\* parses and fails in evaluation
C5_Witness ==
    /\ last.op = "custom_query"
    /\ last.query = <<"INVALID", "SPARQL", "SYNTAX">>
    /\ last.engine.kind = "raise"
    /\ last.result.query_type = "error"

\* the language codes of the annotations recorded in a languages graph
UsedCodes(gr) ==
    {t[3].v : t \in {x \in gr : /\ x[2] = "lgont:languageCode"
                                 /\ x[1] \in Subjects(gr, URI("LGONT", "LanguageAnnotation"))}}

\* the Language records of a languages graph, each with all its triples
LanguageRecords(gr) ==
    {{t \in gr : t[1] = s} : s \in Subjects(gr, URI("LGONT", "Language"))}

CodeOnlyRecord(code) ==
    { <<URI("LGLANG", code), RDFtype, URI("LGONT", "Language")>>,
      <<URI("LGLANG", code), "lgont:languageCode", Literal(code, "", "")>> }

QueryMethods == TemplateMethods \cup {"custom_query", "execute_query"}

\* C12: a query that runs longer than the timeout given to execute_query
\* is cancelled: the call returns within the timeout, and the result is
\* classified as a timeout, which is not the class of a failed query
C12_TimeoutCancels ==
    (last.op \in QueryMethods /\ last.engine.elapsed > last.timeout) =>
        /\ last.result.execution_time <= last.timeout
        /\ last.result.query_type = "timeout"

InterfaceMethods ==
    QueryMethods \cup {"get_query_suggestions", "get_available_languages", "get_entity_types"}

\* C13: no operation of the query interface changes the store: every
\* partition of the dataset is the same after the call as before it,
\* whether the engine answered or raised
C13_QueriesReadOnly ==
    [][last'.op \in InterfaceMethods =>
        /\ \A g \in GraphNames : dataset'[g] = dataset[g]
        /\ annotators' = annotators]_vars

\* a query answered with two rows over a store that holds data
C13_Witness ==
    /\ last.op = "custom_query"
    /\ last.engine.kind = "rows"
    /\ last.result.result_count = 2
    /\ dataset = UsedStore.dataset

\* C14: the stores are append-only: every operation of the generator and
\* of the manager leaves each triple that was in the generator's graph or
\* in a partition of the dataset where it was
C14_AppendOnly ==
    [][/\ graph \subseteq graph'
       /\ \A g \in GraphNames : dataset[g] \subseteq dataset'[g]]_vars

\* an annotator registered a second time under another name: the triples
\* of the first registration are still there
C14_Witness ==
    /\ last.op = "register_annotator"
    /\ last.profile.name = "Ahmed"
    /\ <<URI("LGANG", last.profile.annotator_id), "foaf:name", Literal("Maria", "", "")>>
            \in dataset["annotators"]

\* the triples of the graph whose subject is s
About(gr, s) == {t \in gr : t[1] = s}

\* the Statement records of the graph whose subject, predicate and object
\* are those of the surface triple
StatementsOf(gr, triple) ==
    {s \in Statements(gr) :
        /\ MainTriple(triple)[1] \in Objects(gr, s, "lgont:hasSubject")
        /\ URI("LGONT", Clean(Word(triple.predicate))) \in Objects(gr, s, "lgont:hasPredicate")
        /\ MainTriple(triple)[3] \in Objects(gr, s, "lgont:hasObject")}

\* C15: every add_triple_to_graph call, also one that writes a surface
\* triple already written, returns a statement_id no earlier Statement
\* carries and adds exactly one new Statement record, which has one subject,
\* predicate, object, confidence, source language, annotator and timestamp,
\* those of the triple given; the Statement records of earlier calls keep
\* exactly their triples.
C15_NeverOverwrites ==
    [][AddTripleToGraphCall =>
        LET triple == last'.triple
            new == UuidURI("LGPROV", "statement_", last'.returned)
        IN  /\ new \notin Statements(graph)
            /\ Statements(graph') = Statements(graph) \cup {new}
            /\ \A s \in Statements(graph) : About(graph', s) = About(graph, s)
            /\ Objects(graph', new, "lgont:hasSubject") = {MainTriple(triple)[1]}
            /\ Objects(graph', new, "lgont:hasPredicate")
                    = {URI("LGONT", Clean(Word(triple.predicate)))}
            /\ Objects(graph', new, "lgont:hasObject") = {MainTriple(triple)[3]}
            /\ Objects(graph', new, "lgont:confidence")
                    = {NumLiteral(triple.confidence, "xsd:float")}
            /\ Objects(graph', new, "lgont:sourceLanguage")
                    = {Literal(triple.source_language, "xsd:string", "")}
            /\ Objects(graph', new, "lgont:annotatorId")
                    = {Literal(triple.annotator_id, "xsd:string", "")}
            /\ Objects(graph', new, "lgont:timestamp")
                    = {NumLiteral(triple.timestamp, "xsd:dateTime")}]_vars

\* the surface triple just written had been written before: the graph holds
\* two Statement records for it, with different confidences
C15_Witness ==
    /\ last.op = "add_triple_to_graph"
    /\ Cardinality(StatementsOf(graph, last.triple)) = 2
    /\ \E s, t \in StatementsOf(graph, last.triple) :
            Objects(graph, s, "lgont:confidence") # Objects(graph, t, "lgont:confidence")

\* the annotator URI has an lgont:annotatorId in the annotators partition
Registered(ds, annotator_uri) ==
    \E t \in ds["annotators"] : t[1] = annotator_uri /\ t[2] = "lgont:annotatorId"

\* the feedback records of the rlhf partition provided by the annotator URI
ProvidedBy(ds, annotator_uri) ==
    {t[1] : t \in {x \in ds["rlhf"] : x[2] = "lgont:providedBy" /\ x[3] = annotator_uri}}

\* the feedback records the rows are about
Returned(rows) == {r.feedback : r \in rows}

\* C16: add_rlhf_feedback_trace for an annotator that is not registered
\* succeeds and writes the feedback and one audit entry; an unfiltered
\* query_rlhf_feedback returns no row for a feedback record none of whose
\* annotators is registered and a row for every feedback record of a
\* registered annotator; after register_annotator the query has a row for
\* every feedback record of that annotator.
C16_DanglingFeedbackOmitted ==
    /\ [][(AddRlhfFeedbackTrace
            /\ ~Registered(dataset, URI("LGANG", last'.trace.annotator_id)))
          => /\ last'.outcome = "ok"
             /\ last'.returned = last'.trace.feedback_id
             /\ FeedbackTriples(last'.trace) \subseteq dataset'["rlhf"]
             /\ Cardinality(AuditEntries(dataset')) = Cardinality(AuditEntries(dataset)) + 1]_vars
    /\ [][(QueryRlhfFeedback /\ last'.feedback_type = "" /\ last'.min_quality_score = 0)
          => \A t \in {x \in dataset["rlhf"] : x[2] = "lgont:providedBy"} :
                /\ Registered(dataset, t[3]) => t[1] \in Returned(last'.returned)
                /\ (\A u \in {x \in dataset["rlhf"] : x[2] = "lgont:providedBy" /\ x[1] = t[1]} :
                        ~Registered(dataset, u[3]))
                    => t[1] \notin Returned(last'.returned)]_vars
    /\ [][RegisterAnnotator
          => ProvidedBy(dataset', URI("LGANG", last'.profile.annotator_id))
                \subseteq Returned(RlhfSolutions(dataset', "", 0))]_vars

\* an unfiltered query over a store that holds feedback of a registered
\* annotator and feedback of an annotator that was never registered: the
\* first is returned, the second is not
C16_Witness ==
    /\ last.op = "query_rlhf_feedback"
    /\ last.feedback_type = "" /\ last.min_quality_score = 0
    /\ ProvidedBy(dataset, URI("LGANG", "ghost")) # {}
    /\ ProvidedBy(dataset, URI("LGANG", "ghost")) \cap Returned(last.returned) = {}
    /\ ProvidedBy(dataset, URI("LGANG", "ann1")) # {}
    /\ ProvidedBy(dataset, URI("LGANG", "ann1")) \subseteq Returned(last.returned)

\* C17: after add_triple_to_graph the (subject, predicate, object) fact is
\* in the main partition, the triples of the Statement record (confidence,
\* source language, annotator, timestamp, provenance details) are in the
\* provenance partition, and neither partition holds the other's triples.
C17_FactsAndProvenanceSeparate ==
    [][AddTripleToGraphCall =>
        LET fact == MainTriple(last'.triple)
            record == About(graph', UuidURI("LGPROV", "statement_", last'.returned))
        IN  /\ fact \in dataset'["main"]
            /\ record \subseteq dataset'["provenance"]
            /\ fact \notin dataset'["provenance"]
            /\ record \cap dataset'["main"] = {}]_vars

\* the statements recorded with the annotator: those a provenance record of
\* the manager traces with the annotator among its data, and the Statement
\* records of the generator with that annotatorId
RecordedBy(ds, gr, annotator_id) ==
    { t[3] : t \in { x \in ds["provenance"] :
                        /\ x[2] = "lgont:tracesStatement"
                        /\ \E y \in ds["provenance"] :
                              /\ y[1] = x[1]
                              /\ y[2] \in {"lgprov:annotatorId", "lgprov:annotator_id"}
                              /\ y[3] = Literal(annotator_id, "", "") } }
    \cup { s \in Statements(gr) :
             Literal(annotator_id, "xsd:string", "") \in Objects(gr, s, "lgont:annotatorId") }

\* C18: query_by_annotator(A) returns a row for every statement recorded,
\* by add_provenance_trace or by add_triple_to_graph, with provenance that
\* names annotator A.
C18_QueryByAnnotatorComplete ==
    [][QueryByAnnotator =>
        \A st \in RecordedBy(dataset, graph, last'.annotator_id) :
            \E row \in last'.returned : row.statement = st]_vars

\* the position of a language in the order of self.language_patterns
Priority(lang) == CHOOSE i \in DOMAIN LanguageOrder : LanguageOrder[i] = lang

\* C19: the language detect_language returns has the highest stop-word hit
\* count, over the lower-cased tokens of the text split at whitespace, of
\* all languages; when the highest count is positive and several languages
\* have it, the one returned is the first of them in the order es, ar, id,
\* en.
C19_HighestScoreFixedTieBreak ==
    last.op = "detect_language" =>
        LET words == Split(last.text)
            best == Hits(words, last.returned)
        IN  /\ last.returned \in {"es", "ar", "id", "en"}
            /\ \A lang \in {"es", "ar", "id", "en"} : Hits(words, lang) <= best
            /\ best > 0 =>
                    \A lang \in {"es", "ar", "id", "en"} :
                        Hits(words, lang) = best
                            => Priority(last.returned) <= Priority(lang)

\* detect_language has answered for a text in which ar, id and en have one
\* hit each and es none: the answer is ar
C19_Witness ==
    /\ last.op = "detect_language"
    /\ last.text = Text(0, <<W("The"), W("ini"), W("fi")>>)
    /\ last.returned = "ar"

\* the characters '.', '!', '?' and ',' of a str
SentencePunctuation(text) ==
    {text.ch[i].p : i \in DOMAIN text.ch} \cap {".", "!", "?", ","}

\* C20: the Statement add_triple_to_graph writes has for object an entity
\* reference exactly when the object value has fewer than 50 characters and
\* none of '.', '!', '?', ','; in every other case its object is the
\* literal of the unchanged object text with the triple's source_language
\* for language tag.  Its subject and predicate are entity references, and
\* the fact added to the graph has the same three terms.
C20_ObjectEntityOrLiteral ==
    [][AddTripleToGraphCall =>
        LET triple == last'.triple
            new == UuidURI("LGPROV", "statement_", last'.returned)
            short == CharLen(triple.object) < 50 /\ SentencePunctuation(triple.object) = {}
        IN  \E s \in Objects(graph', new, "lgont:hasSubject"),
               p \in Objects(graph', new, "lgont:hasPredicate"),
               o \in Objects(graph', new, "lgont:hasObject") :
                /\ s.k = "uri" /\ p.k = "uri"
                /\ (o.k = "uri") <=> short
                /\ ~short => o = [k |-> "lit", ns |-> "", v |-> Raw(triple.object), n |-> 0,
                                   dt |-> "", lang |-> triple.source_language]
                /\ <<s, "lgont:" \o p.v, o>> \in graph']_vars

\* an object of 49 letters has been written as an entity reference and the
\* object of 50 letters as a literal
C20_Witness ==
    /\ last.op = "add_triple_to_graph"
    /\ last.triple.object = Word(Word50)
    /\ \E st \in Statements(graph) :
            Objects(graph, st, "lgont:hasObject") = {Literal(Word50, "", "es")}
    /\ \E st \in Statements(graph) :
            Objects(graph, st, "lgont:hasObject") = {URI("LGDATA", Word49)}

\* C21: for every document with a non-empty text, the contains_text
\* statement convert_limitgraph_corpus writes has the Document entity of the
\* document for subject and the full raw text of the document, as a
\* literal, for object, whatever the length and the punctuation of the text.
C21_ContainsTextKeepsRawText ==
    last.op = "convert_limitgraph_corpus" =>
        \A i \in DOMAIN last.corpus :
            (Truthy(last.corpus[i].text) /\ last.corpus[i].has_id) =>
                \A u \in ContainsTextWritten(i) :
                    /\ Objects(graph, StatementURI(u), "lgont:hasSubject")
                            = {DocumentSubject(last.corpus[i])}
                    /\ \A o \in Objects(graph, StatementURI(u), "lgont:hasObject") :
                            o.k = "lit" /\ o.v = Raw(last.corpus[i].text)

\* the datatype the typed serialization gives a value of each Python type;
\* "" is the plain literal
DatatypeOf ==
    [int |-> "xsd:integer", float |-> "xsd:float", bool |-> "xsd:boolean",
     datetime |-> "xsd:dateTime", str |-> ""]

\* C22: add_provenance_trace adds, for each key and value of the details
\* map, exactly one triple to the new provenance record, whose object is a
\* literal typed after the value: integer, float, boolean, dateTime, or
\* plain text.
C22_TypedSerialization ==
    [][AddProvenanceTrace =>
        \A kv \in last'.provenance_data :
            LET written == Objects(dataset'["provenance"], ProvenanceURI(last'.returned),
                                   "lgprov:" \o kv[1])
            IN  /\ Cardinality(written) = 1
                /\ \A o \in written : o.k = "lit" /\ o.dt = DatatypeOf[kv[2].t]]_vars

\* C23: a query that execute_query reports as executed has for query_type
\* its leading keyword, select, construct, ask or describe, whatever words
\* occur later in its text.
C23_TypeFromLeadingKeyword ==
    (last.op \in TemplateMethods \cup {"custom_query", "execute_query"}
        /\ last.result.query_type # "error")
        => last.result.query_type = QueryForm(last.query, 1)

\* the corpus with the documents at i and i + 1 exchanged; every
\* permutation is a product of such exchanges
Swap(corpus, i) ==
    [k \in DOMAIN corpus |->
        IF k = i THEN corpus[i + 1] ELSE IF k = i + 1 THEN corpus[i] ELSE corpus[k]]

\* what a Statement record says, without the random id of the record
Contents(gr, s) == {<<t[2], t[3]>> : t \in About(gr, s)}

\* the triples of a graph that belong to no Statement record
Facts(gr) == {t \in gr : t[1] \notin Statements(gr)}

\* the two graphs hold the same facts and, up to the ids of the records,
\* the same Statement records, each as many times
SameUpToIds(g, h) ==
    \E sg \in {Statements(g)}, sh \in {Statements(h)} :
        \E cg \in {[s \in sg |-> Contents(g, s)]}, ch \in {[s \in sh |-> Contents(h, s)]} :
            /\ {t \in g : t[1] \notin sg} = {t \in h : t[1] \notin sh}
            /\ Cardinality(sg) = Cardinality(sh)
            /\ \A s \in sg : Cardinality({x \in sg : cg[x] = cg[s]})
                                = Cardinality({x \in sh : ch[x] = cg[s]})

\* C24: convert_limitgraph_corpus on a corpus and on the same corpus with
\* two neighbouring documents exchanged, from the same graph, returns the
\* same triples_count and the same set of languages; when every document
\* has an _id the two graphs hold the same facts and, up to the statement
\* ids, the same Statement records.
C24_OrderIndependent ==
    [][last'.op = "convert_limitgraph_corpus" =>
        \A i \in 1..(Len(last'.corpus) - 1) :
            \E other \in {ConvertFrom(ConvertStart(graph, uuidCtr), Swap(last'.corpus, i), 1,
                                       "corpus_processor", clock')} :
                /\ other.count = last'.triples_count
                /\ other.languages = last'.languages_detected
                /\ Cardinality(Statements(other.graph)) = Cardinality(Statements(graph'))
                /\ (\A k \in DOMAIN last'.corpus : last'.corpus[k].has_id)
                        => SameUpToIds(other.graph, graph')]_vars

\* a Spanish document with a match and an English document with a match
\* have been converted in one call, in that order
C24_Witness ==
    /\ last.op = "convert_limitgraph_corpus"
    /\ last.corpus = <<Doc("d12", T_andres), Doc("d1", T_alice)>>
    /\ last.languages_detected = {"es", "en"}
    /\ last.triples_count = 4

\* the matches of the domain patterns of a language in a text
PatternMatches(text, language) ==
    IF language = "es"
    THEN Len(FindIter("es_likes", text.ch, 1, "")) + Len(FindIter("es_allergic", text.ch, 1, ""))
    ELSE IF language = "en" THEN Len(FindIter("en_likes", text.ch, 1, ""))
    ELSE 0

\* the statements due for the documents of the corpus from document i on:
\* for each document with a text, its pattern matches and one more
RECURSIVE StatementsDue(_, _)
StatementsDue(corpus, i) ==
    IF i > Len(corpus) THEN 0
    ELSE (IF Truthy(corpus[i].text)
          THEN PatternMatches(corpus[i].text, DetectLanguage(corpus[i].text)) + 1
          ELSE 0)
         + StatementsDue(corpus, i + 1)

\* C25: the triples_count convert_limitgraph_corpus returns is the number
\* of Statement records the call added to the graph and is the sum, over
\* the documents with a non-empty text, of the pattern matches plus one;
\* languages_detected is the set of the languages detect_language returns
\* for those documents.
C25_SummaryCounts ==
    last.op = "convert_limitgraph_corpus" =>
        /\ last.triples_count = Cardinality(Statements(last.added))
        /\ last.triples_count = StatementsDue(last.corpus, 1)
        /\ last.languages_detected
              = {DetectLanguage(last.corpus[i].text) :
                    i \in {k \in DOMAIN last.corpus : Truthy(last.corpus[k].text)}}

\* a call has converted the document with two matches and a document
\* without text: three statements, one language
C25_Witness ==
    /\ last.op = "convert_limitgraph_corpus"
    /\ last.corpus = <<Doc("d_1", T_two), Doc("d1", T_empty)>>
    /\ last.triples_count = 3
    /\ last.languages_detected = {"en"}

\* the cleaning rule as stated: every whitespace character and every
\* hyphen becomes the connector, every other character that is neither
\* alphanumeric nor the connector is dropped
RECURSIVE StatedClean(_, _)
StatedClean(label, i) ==
    IF i > Len(label) THEN << >>
    ELSE (IF label[i] \in {" ", "\t", "-"} THEN <<"_">>
          ELSE IF IsAlnum(label[i]) \/ label[i] = "_" THEN <<label[i]>>
          ELSE << >>)
         \o StatedClean(label, i + 1)

\* C26: _clean_uri_component turns every whitespace character and every
\* hyphen of the label into "_" and drops every other character that is
\* not alphanumeric; its output holds only alphanumerics and "_"; it
\* answers for every label, the empty one too; cleaning its output again
\* changes nothing.
C26_CleanRule ==
    last.op = "_clean_uri_component" =>
        /\ last.returned = StatedClean(last.component, 1)
        /\ \A i \in DOMAIN last.returned : IsAlnum(last.returned[i]) \/ last.returned[i] = "_"
        /\ CleanUriComponent(last.returned) = last.returned

\* C27: every Statement convert_limitgraph_corpus writes for a document has
\* for source language the language detect_language returns for the text
\* of the document.
C27_StatementLanguageIsDocumentLanguage ==
    last.op = "convert_limitgraph_corpus" =>
        \A i \in DOMAIN last.corpus :
            \A k \in DOMAIN last.written[i] :
                Objects(graph, StatementURI(last.written[i][k]), "lgont:sourceLanguage")
                    = {Literal(DetectLanguage(last.corpus[i].text), "xsd:string", "")}

\* C28: in every result of execute_query, when the engine answered and
\* when it failed, result_count is the number of entries of results.
C28_CountMatchesResults ==
    last.op \in TemplateMethods \cup {"custom_query", "execute_query"} =>
        last.result.result_count = Len(last.result.results)

\* the step leaves every partition outside gs, and the registry if asked,
\* as they were
OnlyChanges(gs, registry) ==
    /\ \A g \in GraphNames \ gs : dataset'[g] = dataset[g]
    /\ registry \/ annotators' = annotators

\* C29: register_annotator changes only the annotators partition and the
\* registry, add_language_annotation only the languages partition,
\* add_provenance_trace only the provenance partition,
\* add_rlhf_feedback_trace only the rlhf and audit partitions; none of them
\* changes the main partition.
C29_WritesStayInOwnPartitions ==
    [][/\ last'.op = "register_annotator" => OnlyChanges({"annotators"}, TRUE)
       /\ last'.op = "add_language_annotation" => OnlyChanges({"languages"}, FALSE)
       /\ last'.op = "add_provenance_trace" => OnlyChanges({"provenance"}, FALSE)
       /\ last'.op = "add_rlhf_feedback_trace" => OnlyChanges({"rlhf", "audit"}, FALSE)
       /\ dataset'["main"] = dataset["main"]]_vars

\* feedback has been added to a store whose annotators, languages and
\* provenance partitions hold data
C29_Witness ==
    /\ last.op = "add_rlhf_feedback_trace"
    /\ dataset["annotators"] # {}
    /\ dataset["languages"] # {}
    /\ dataset["provenance"] # {}
    /\ Cardinality(AuditEntries(dataset)) = 2

\* C30: every feedback record of the rlhf partition has exactly one
\* feedback type, quality score, relevance score, cultural appropriateness,
\* timestamp and annotator, also after a feedback_id has been used again,
\* and query_rlhf_feedback returns at most one row per feedback record.
C30_FeedbackSingleValued ==
    /\ \A f \in Subjects(dataset["rlhf"], URI("LGONT", "RLHFFeedback")) :
            \A p \in {"lgont:feedbackType", "lgont:qualityScore", "lgont:relevanceScore",
                       "lgont:culturalAppropriateness", "dcterms:created", "lgont:providedBy"} :
                Cardinality(Objects(dataset["rlhf"], f, p)) = 1
    /\ last.op = "query_rlhf_feedback" =>
            \A r \in last.returned :
                Cardinality({x \in last.returned : x.feedback = r.feedback}) = 1
====
